---------------------------- MODULE Spec2Model ----------------------------
(***************************************************************************)
(* HardBore backend: the persistent search index (src-tauri/src/indexer.rs)*)
(* with its background ingest workers, and the file-chooser portal         *)
(* (src-tauri/src/bin/portal.rs) with the picker stdout protocol           *)
(* (src-tauri/src/lib.rs), and the directory listing and crawl             *)
(* (src-tauri/src/fs_engine.rs).                                           *)
(*                                                                         *)
(* Strings are sequences of one-character strings, so that splitting,      *)
(* prefix stripping and substring matching are computed, not assumed.      *)
(***************************************************************************)
EXTENDS Integers, Sequences, FiniteSets, Bags, TLC

VARIABLES
    opened,     \* an Indexer has been constructed (AppState.indexer is Some)
    schema,     \* on-disk schema of hardbore_index.db: "none" | "legacy" | "current"
    db,         \* committed database contents: [files, fts]
    writer,     \* worker holding SQLite's write lock (0: nobody)
    wdb,        \* the lock holder's uncommitted view of [files, fts]
    status,     \* the shared IndexerStatus behind Arc<Mutex<..>>
    worker,     \* per ingest thread: its position and locals
    runs,       \* index_directory calls made so far
    budget,     \* storage failures the environment may still inject
    ev,         \* the step taken last
    hist,       \* observations of completed runs (history, not program state)
    portal,     \* the portal's method call in progress and its picker child
    picker,     \* a picker process: its command line and the PickerConfig parsed
    uri,        \* a path and the file URI made of it
    search,     \* the last search made on the index and its result
    listing,    \* the last fs_engine call and its result
    locks,      \* the indexer mutex, the status mutex and the threads using them
    bus         \* the portal's method calls in progress, each with its picker

ivars == <<opened, schema, db, writer, wdb, status, worker, runs, budget, ev, hist>>

fvars == <<picker, uri, search, listing, locks, bus>>

vars == <<ivars, portal, fvars>>

-----------------------------------------------------------------------------
(* Bounds of the model *)

\* index_directory calls in one behaviour
MaxRuns == 2

\* storage failures (open, prepare, insert, commit) injected in one behaviour
MaxFaults == 1

\* largest value Instant::elapsed() is seen to take, in ms
MaxElapsed == 1

\* rows per transaction; 10000 in the source, scaled so that a crawl of four
\* entries crosses two batch boundaries
BATCH_SIZE == 2

\* ingest threads that may be alive at the same time
Workers == {1, 2}

None == <<>>

-----------------------------------------------------------------------------
(* Strings *)

Max(S) == CHOOSE x \in S : \A y \in S : y <= x

\* the characters of the bytes 32..126, in order ("GRAVE" stands for the
\* grave accent, byte 96)
Ascii ==
    <<
      " ", "!", "\"", "#", "$", "%", "&", "'", "(", ")", "*", "+",
      ",", "-", ".", "/", "0", "1", "2", "3", "4", "5", "6", "7",
      "8", "9", ":", ";", "<", "=", ">", "?", "@", "A", "B", "C",
      "D", "E", "F", "G", "H", "I", "J", "K", "L", "M", "N", "O",
      "P", "Q", "R", "S", "T", "U", "V", "W", "X", "Y", "Z", "[",
      "\\", "]", "^", "_", "GRAVE", "a", "b", "c", "d", "e", "f", "g",
      "h", "i", "j", "k", "l", "m", "n", "o", "p", "q", "r", "s",
      "t", "u", "v", "w", "x", "y", "z", "{", "|", "}", "~"
    >>

\* ASCII lower case of one character
Lower(c) ==
    IF \E i \in 34..59 : Ascii[i] = c
    THEN Ascii[(CHOOSE i \in 34..59 : Ascii[i] = c) + 32]
    ELSE c

LowerAll(str) == [i \in DOMAIN str |-> Lower(str[i])]

RECURSIVE IsSubsequence(_, _)
\* the characters of q occur in str in this order
IsSubsequence(q, str) ==
    IF q = <<>> THEN TRUE
    ELSE IF str = <<>> THEN FALSE
    ELSE IF Head(q) = Head(str) THEN IsSubsequence(Tail(q), Tail(str))
    ELSE IsSubsequence(q, Tail(str))

IsPrefix(p, s) == Len(p) <= Len(s) /\ SubSeq(s, 1, Len(p)) = p

\* str::contains
Contains(s, q) ==
    \E k \in 0..(Len(s) - Len(q)) : SubSeq(s, k + 1, k + Len(q)) = q

-----------------------------------------------------------------------------
(* The file tree that is crawled *)

P_d   == <<"/", "d">>
P_abc == <<"/", "d", "/", "a", "b", "c">>
P_s   == <<"/", "d", "/", "s">>
P_bcd == <<"/", "d", "/", "s", "/", ".", "b", "c">>

\* a path that does not exist
P_x   == <<"/", "x">>

\* a second tree, with the file of the fuzzy search scenario
P_m   == <<"/", "m">>
P_cfg == P_m \o <<"/">> \o <<"m", "y", "_", "c", "o", "n", "f", "i", "g", "u", "r", "a", "t", "i", "o", "n", ".", "y", "a", "m", "l">>

FsNodes == {P_d, P_abc, P_s, P_bcd, P_m, P_cfg}

LastSlash(p) == Max({i \in 1..Len(p) : p[i] = "/"})

\* Path::file_name
FileName(p) == SubSeq(p, LastSlash(p) + 1, Len(p))

\* Path::parent
ParentPath(p) == SubSeq(p, 1, LastSlash(p) - 1)

\* depth of p below root; the root itself is at depth 0
Depth(root, p) ==
    Cardinality({i \in (Len(root) + 1)..Len(p) : p[i] = "/"})

Below(root, p) ==
    p = root \/ IsPrefix(root \o <<"/">>, p)

\* get_file_entry: the fields the index stores
FileEntry(p) ==
    [path |-> p, name |-> FileName(p), hidden |-> FileName(p)[1] = "."]

\* the (root, max_depth) arguments index_directory is called with;
\* max_depth -1 stands for None
CrawlArgs == {<<P_d, -1>>, <<P_d, 1>>, <<P_s, -1>>, <<P_x, -1>>}

\* the arguments of the calls made over failing storage
FaultArgs == {<<P_d, 1>>, <<P_s, -1>>, <<P_x, -1>>}

\* the arguments of the calls made before searching
SearchArgs == {<<P_m, -1>>}

\* the arguments of the calls that are let overlap
OverlapArgs == {<<P_d, 1>>, <<P_s, -1>>}

Reached(root, maxDepth) ==
    {p \in FsNodes : Below(root, p) /\ (maxDepth = -1 \/ Depth(root, p) <= maxDepth)}

Orders(S) ==
    {s \in [1..Cardinality(S) -> S] : \A i, j \in DOMAIN s : i # j => s[i] # s[j]}

\* crawl_directory: every reached node once, a directory before its
\* children, in an order that is otherwise not determined
crawl_directory(root, maxDepth) ==
    {[i \in DOMAIN s |-> FileEntry(s[i])] : s \in
        {o \in Orders(Reached(root, maxDepth)) :
            \A i, j \in DOMAIN o : o[i] = ParentPath(o[j]) => i < j}}

-----------------------------------------------------------------------------
(* The index store: table files, the FTS5 shadow files_fts, the triggers *)

EmptyDb == [files |-> {}, fts |-> EmptyBag]

\* OP_NewRowid for INTEGER PRIMARY KEY without AUTOINCREMENT
NewRowid(files) ==
    IF files = {} THEN 1 ELSE Max({r.id : r \in files}) + 1

FtsEntry(r) == [rowid |-> r.id, name |-> r.name, path |-> r.path]

\* trigger files_ai
files_ai(fts, new) == fts (+) SetToBag({FtsEntry(new)})

\* trigger files_ad: the FTS5 'delete' command with the old row's values
files_ad(fts, old) == fts (-) SetToBag({FtsEntry(old)})

RECURSIVE DeleteAll(_, _)
DeleteAll(fts, rows) ==
    IF rows = {} THEN fts
    ELSE LET r == CHOOSE x \in rows : TRUE
         IN DeleteAll(files_ad(fts, r), rows \ {r})

\* rows removed by conflict resolution REPLACE fire files_ad only with
\* recursive triggers enabled; no connection enables them
ReplaceFiresDeleteTrigger == FALSE

\* a plain INSERT into a table whose path column is not UNIQUE
InsertPlain(d, e) ==
    LET new == [id |-> NewRowid(d.files), path |-> e.path, name |-> e.name,
                hidden |-> e.hidden]
    IN [files |-> d.files \cup {new}, fts |-> files_ai(d.fts, new)]

\* INSERT OR REPLACE INTO files (path, name, ...) VALUES (...)
InsertOrReplace(d, e) ==
    LET id       == NewRowid(d.files)
        conflict == {r \in d.files : r.path = e.path}
        new      == [id |-> id, path |-> e.path, name |-> e.name, hidden |-> e.hidden]
        fts1     == IF ReplaceFiresDeleteTrigger THEN DeleteAll(d.fts, conflict) ELSE d.fts
    IN [files |-> (d.files \ conflict) \cup {new}, fts |-> files_ai(fts1, new)]

-----------------------------------------------------------------------------
(* Queries *)

Operators == {"\"", "*", "+", "-", "(", ")", ":", "^"}

\* escaped_query that leaves the parentheses in place
escaped_query_keeps_parens(q) ==
    [i \in DOMAIN q |-> IF q[i] \in Operators \ {"(", ")"} THEN " " ELSE q[i]]

\* search_fts: the sanitised query
escaped_query(q) ==
    [i \in DOMAIN q |-> IF q[i] \in Operators THEN " " ELSE q[i]]

\* search_fts: the MATCH expression bound to ?1, format!("\"{}\"*", escaped_query)
fts_query(q) == <<"\"">> \o escaped_query(q) \o <<"\"", "*">>

\* MATCH '"<q>"*' under tokenize='trigram': a phrase of fewer than three
\* characters has no trigram and matches nothing; otherwise the phrase
\* matches an entry whose name or path column contains it, letter case
\* aside (the tokenizer's case_sensitive option is left at 0)
FtsMatch(e, q) ==
    /\ Len(q) >= 3
    /\ \/ Contains(LowerAll(e.name), LowerAll(q))
       \/ Contains(LowerAll(e.path), LowerAll(q))

\* SELECT ... FROM files_fts fts JOIN files f ON fts.rowid = f.id
\* WHERE files_fts MATCH ?1: the rows returned, before ORDER BY and LIMIT
FtsJoin(d, q) ==
    {f \in d.files :
        \E e \in BagToSet(d.fts) : e.rowid = f.id /\ FtsMatch(e, escaped_query(q))}

\* the SearchResult built from a row
SearchResult(f, score) ==
    [name |-> f.name, path |-> f.path, hidden |-> f.hidden, score |-> score]

\* search_fts that goes on after a failure as if there were none
search_fts_unguarded(d, q, limit, ok) ==
    {{SearchResult(f, 0) : f \in R} : R \in
        {S \in SUBSET FtsJoin(d, q) :
            Cardinality(S) = IF Cardinality(FtsJoin(d, q)) < limit
                             THEN Cardinality(FtsJoin(d, q)) ELSE limit}}

\* search_fts(query, limit): the possible result sets, as sets of rows; an
\* unopenable connection or unpreparable statement gives the empty result
search_fts(d, q, limit, ok) ==
    IF ~ok THEN {{}}
    ELSE {{SearchResult(f, 0) : f \in R} : R \in
            {S \in SUBSET FtsJoin(d, q) :
                Cardinality(S) = IF Cardinality(FtsJoin(d, q)) < limit
                                 THEN Cardinality(FtsJoin(d, q)) ELSE limit}}

\* get_indexed_count: COUNT(*) FROM files, or 0 on error
get_indexed_count(d, ok) ==
    IF ok THEN Cardinality(d.files) ELSE 0

Queries ==
    {<<"a", "b", "c">>, <<"b", "c">>, <<".", "b", "c">>, <<"/", "d", "/">>,
     <<"d", "/", "s">>, <<"(", "b", "c">>, <<"A", "B", "C">>}

Limits == {1, 5}

RECURSIVE LikeMatch(_, _)
\* SQLite's LIKE: % is any run of characters, _ is any one character, ASCII
\* letters match in either case
LikeMatch(pat, str) ==
    IF pat = <<>> THEN str = <<>>
    ELSE IF Head(pat) = "%"
         THEN \E k \in 0..Len(str) : LikeMatch(Tail(pat), SubSeq(str, k + 1, Len(str)))
    ELSE /\ str # <<>>
         /\ Head(pat) = "_" \/ Lower(Head(pat)) = Lower(Head(str))
         /\ LikeMatch(Tail(pat), Tail(str))

\* LIMIT 5000 of the prefilter
CandidateLimit == 5000

\* search_fuzzy: the rows WHERE name LIKE ?1 OR path LIKE ?1 with
\* ?1 = '%<query>%'
Prefiltered(d, q) ==
    LET pattern == <<"%">> \o q \o <<"%">>
    IN {f \in d.files : LikeMatch(pattern, f.name) \/ LikeMatch(pattern, f.path)}

\* the candidate sets the prefilter may return under its LIMIT
Candidates(d, q) ==
    {S \in SUBSET Prefiltered(d, q) :
        Cardinality(S) = IF Cardinality(Prefiltered(d, q)) < CandidateLimit
                         THEN Cardinality(Prefiltered(d, q)) ELSE CandidateLimit}

\* the scores fuzzy_match may give a match; the matcher is a library and its
\* scores are not determined here
Scores == -1..2

\* SkimMatcherV2::default().fuzzy_match(text, query) is Some: the characters
\* of the query occur in the text in order, letter case ignored unless the
\* query has an upper-case letter
FuzzyMatches(text, q) ==
    IF LowerAll(q) = q THEN IsSubsequence(q, LowerAll(text))
    ELSE IsSubsequence(q, text)

\* search_fuzzy without its sort
search_fuzzy_unsorted(d, q, limit, ok) ==
    IF ~ok THEN {<<>>}
    ELSE UNION {
           LET matched == {f \in C : FuzzyMatches(f.name, q) \/ FuzzyMatches(f.path, q)}
           IN UNION {
                {[i \in 1..(IF Len(o) < limit THEN Len(o) ELSE limit) |->
                       SearchResult(o[i], sc[o[i]])] :
                   o \in Orders(matched)} :
                sc \in [matched -> Scores]} :
           C \in Candidates(d, q)}

\* search_fuzzy(query, limit): the possible results, as sequences ordered by
\* score, highest first, cut at limit
search_fuzzy(d, q, limit, ok) ==
    IF ~ok THEN {<<>>}
    ELSE UNION {
           LET matched == {f \in C : FuzzyMatches(f.name, q) \/ FuzzyMatches(f.path, q)}
           IN UNION {
                {[i \in 1..(IF Len(o) < limit THEN Len(o) ELSE limit) |->
                       SearchResult(o[i], sc[o[i]])] :
                   o \in {x \in Orders(matched) :
                            \A i, j \in DOMAIN x : i < j => sc[x[i]] >= sc[x[j]]}} :
                sc \in [matched -> Scores]} :
           C \in Candidates(d, q)}

\* limit.unwrap_or(50)
DefaultLimit == 50

\* search_files with an indexer that follows the FTS result whatever it is
search_files_fts_only(init, d, q, limit, ok1, ok2) ==
    IF ~init THEN {[via |-> "none", results |-> <<>>]}
    ELSE LET l == IF limit = None THEN DefaultLimit ELSE limit[1]
         IN {[via |-> "fts", results |-> R] : R \in search_fts(d, q, l, ok1)}

\* search_files(query, limit): the possible results; via tells which search
\* produced them. ok1 and ok2 tell whether storage serves the first and the
\* second search
search_files(init, d, q, limit, ok1, ok2) ==
    IF ~init THEN {[via |-> "none", results |-> <<>>]}
    ELSE LET l == IF limit = None THEN DefaultLimit ELSE limit[1]
         IN UNION {
              IF R = {}
              THEN {[via |-> "fuzzy", results |-> Z] : Z \in search_fuzzy(d, q, l, ok2)}
              ELSE {[via |-> "fts", results |-> R]} :
              R \in search_fts(d, q, l, ok1)}

CfgName == <<"m", "y", "_", "c", "o", "n", "f", "i", "g", "u", "r", "a", "t", "i", "o", "n", ".", "y", "a", "m", "l">>

Cofig == <<"c", "o", "f", "i", "g">>

\* the queries searched for in the second tree
FooBar == <<"f", "o", "o", "*", "b", "a", "r", "(", "x", ")">>

SearchQueries ==
    {Cofig, <<"c", "o", "n", "f", "i", "g">>, <<"m", "y", "_", "c">>, <<"z", "z", "z">>,
     <<"m">>, <<>>, FooBar, <<"\"", "+", "-", ":", "^">>}

\* the limit argument of search_files
OptLimits == {None} \cup {<<l>> : l \in Limits}

-----------------------------------------------------------------------------
(* The picker's stdout protocol and the portal's reading of it *)

LF == "\n"
CR == "\r"

SelectedPrefix ==
    <<"H", "A", "R", "D", "B", "O", "R", "E", "_",
      "S", "E", "L", "E", "C", "T", "E", "D", ":">>

CancelledLine ==
    <<"H", "A", "R", "D", "B", "O", "R", "E", "_",
      "C", "A", "N", "C", "E", "L", "L", "E", "D">>

\* println!
println(out, text) == out \o text \o <<LF>>

RECURSIVE PrintSelected(_, _)
\* select_files: one println!("HARDBORE_SELECTED:{}", path) per path
PrintSelected(out, paths) ==
    IF paths = <<>> THEN out
    ELSE PrintSelected(println(out, SelectedPrefix \o Head(paths)), Tail(paths))

\* select_files(paths), then exit(0)
select_files(paths) == [spawned |-> TRUE, exit |-> 0, stdout |-> PrintSelected(<<>>, paths)]

\* cancel_picker, then exit(1)
cancel_picker == [spawned |-> TRUE, exit |-> 1, stdout |-> println(<<>>, CancelledLine)]

FirstIndex(s, c) ==
    IF \E i \in DOMAIN s : s[i] = c
    THEN CHOOSE i \in DOMAIN s : s[i] = c /\ \A j \in 1..(i - 1) : s[j] # c
    ELSE 0

\* strip_suffix of one character
StripSuffix(s, c) ==
    IF s # <<>> /\ s[Len(s)] = c THEN SubSeq(s, 1, Len(s) - 1) ELSE s

RECURSIVE Lines(_)
\* str::lines: split after every "\n"; each line loses its "\n" and then a
\* "\r" before it; a final line without "\n" is kept as it is
Lines(s) ==
    IF s = <<>> THEN <<>>
    ELSE LET k == FirstIndex(s, LF)
         IN IF k = 0 THEN <<s>>
            ELSE <<StripSuffix(SubSeq(s, 1, k - 1), CR)>> \o Lines(SubSeq(s, k + 1, Len(s)))

RECURSIVE FilterSelected(_)
\* filter_map(|line| line.strip_prefix("HARDBORE_SELECTED:"))
FilterSelected(lines) ==
    IF lines = <<>> THEN <<>>
    ELSE IF IsPrefix(SelectedPrefix, Head(lines))
         THEN <<SubSeq(Head(lines), Len(SelectedPrefix) + 1, Len(Head(lines)))>>
              \o FilterSelected(Tail(lines))
         ELSE FilterSelected(Tail(lines))

\* a launch_picker that reads stdout whatever the exit status
launch_picker_any_exit(child) ==
    IF child.spawned THEN FilterSelected(Lines(child.stdout)) ELSE <<>>

\* launch_picker: the paths read from the child's output
launch_picker(child) ==
    IF child.spawned /\ child.exit = 0
    THEN FilterSelected(Lines(child.stdout))
    ELSE <<>>

-----------------------------------------------------------------------------
(* URIs and replies *)

UUml == "ü"

Some(x) == <<x>>

\* the byte of an ASCII character
ByteOf(c) ==
    CASE c = LF -> 10
      [] c = CR -> 13
      [] OTHER  -> 31 + (CHOOSE i \in DOMAIN Ascii : Ascii[i] = c)

\* the UTF-8 bytes of one character
Utf8(c) == IF c = UUml THEN <<195, 188>> ELSE <<ByteOf(c)>>

RECURSIVE Bytes(_)
\* str::bytes
Bytes(s) == IF s = <<>> THEN <<>> ELSE Utf8(Head(s)) \o Bytes(Tail(s))

RECURSIVE FromUtf8(_)
\* String::from_utf8(..).ok(): None on a byte sequence that is not UTF-8
FromUtf8(bs) ==
    IF bs = <<>> THEN Some(<<>>)
    ELSE LET one  == Head(bs) \in (32..126) \cup {10, 13}
             two  == Len(bs) >= 2 /\ bs[1] = 195 /\ bs[2] = 188
             c    == IF two THEN UUml
                     ELSE IF Head(bs) = 10 THEN LF
                     ELSE IF Head(bs) = 13 THEN CR
                     ELSE Ascii[Head(bs) - 31]
             rest == FromUtf8(SubSeq(bs, (IF two THEN 3 ELSE 2), Len(bs)))
         IN IF ~(one \/ two) \/ rest = None THEN None
            ELSE Some(<<c>> \o rest[1])

\* b'A'..=b'Z' | b'a'..=b'z' | b'0'..=b'9' | b'-' | b'_' | b'.' | b'~'
Unreserved == (65..90) \cup (97..122) \cup (48..57) \cup {45, 95, 46, 126}

HexDigits ==
    <<"0", "1", "2", "3", "4", "5", "6", "7", "8", "9", "A", "B", "C", "D", "E", "F">>

HexDigitsLower ==
    <<"0", "1", "2", "3", "4", "5", "6", "7", "8", "9", "a", "b", "c", "d", "e", "f">>

\* format!("%{:02x}", b)
PercentByteLower(b) ==
    <<"%", HexDigitsLower[(b \div 16) + 1], HexDigitsLower[(b % 16) + 1]>>

\* format!("%{:02X}", b)
PercentByte(b) == <<"%", HexDigits[(b \div 16) + 1], HexDigits[(b % 16) + 1]>>

\* a match that also copies the byte of "%" unchanged
EncodeByteKeepsPercent(b) ==
    IF b \in Unreserved \cup {37} THEN <<Ascii[b - 31]>> ELSE PercentByte(b)

\* one arm of the match on a byte
EncodeByte(b) == IF b \in Unreserved THEN <<Ascii[b - 31]>> ELSE PercentByte(b)

RECURSIVE EncodeBytes(_)
EncodeBytes(bs) ==
    IF bs = <<>> THEN <<>> ELSE EncodeByte(Head(bs)) \o EncodeBytes(Tail(bs))

\* seg.bytes().map(..).collect::<String>()
EncodeSegment(seg) == EncodeBytes(Bytes(seg))

RECURSIVE EncodePath(_)
\* path.split('/') ... .join("/")
EncodePath(path) ==
    LET k == FirstIndex(path, "/")
    IN IF k = 0 THEN EncodeSegment(path)
       ELSE EncodeSegment(SubSeq(path, 1, k - 1)) \o <<"/">>
            \o EncodePath(SubSeq(path, k + 1, Len(path)))

\* encode_file_uri
encode_file_uri(path) == <<"f", "i", "l", "e", ":", "/", "/">> \o EncodePath(path)

EmptyMap == [k \in {} |-> <<>>]

\* build_response
build_response(uris) ==
    IF uris = <<>> THEN [code |-> 1, results |-> EmptyMap]
    ELSE [code |-> 0, results |-> [uris |-> uris]]

EncodeAll(paths) == [i \in DOMAIN paths |-> encode_file_uri(paths[i])]

\* open_file and save_file, from the picker's end on
open_file_reply(child) == build_response(EncodeAll(launch_picker(child)))

\* a save_files that answers with the chosen directory alone
save_files_reply_dir_only(child, filenames) ==
    LET selected == launch_picker(child)
    IN IF selected = <<>> THEN [code |-> 1, results |-> EmptyMap]
       ELSE build_response(<<encode_file_uri(selected[1])>>)

\* save_files, from the picker's end on; filenames is extract_filenames'
\* result
save_files_reply(child, filenames) ==
    LET selected == launch_picker(child)
    IN IF selected = <<>> THEN [code |-> 1, results |-> EmptyMap]
       ELSE build_response(
              IF filenames = <<>> THEN <<encode_file_uri(selected[1])>>
              ELSE [i \in DOMAIN filenames |->
                      encode_file_uri(selected[1] \o <<"/">> \o filenames[i])])

-----------------------------------------------------------------------------
(* The options of a method call, in the form the handlers read them: what
   downcast_ref and serde_json::to_value give for each value *)

Absent == [t |-> "absent"]
Str(s) == [t |-> "s", s |-> s]
ByteArray(b) == [t |-> "ay", b |-> b]
Bool(v) == [t |-> "bool", v |-> v]
Array(items) == [t |-> "array", items |-> items]

\* extract_bool
extract_bool(options, key) ==
    IF options[key].t = "bool" THEN options[key].v ELSE FALSE

\* b.as_u64().map(|n| n as u8)
AsU8(bs) == [i \in DOMAIN bs |-> bs[i] % 256]

\* bytes.split(|&b| b == 0).next()
UntilNul(bs) ==
    LET k == FirstIndex(bs, 0)
    IN IF k = 0 THEN bs ELSE SubSeq(bs, 1, k - 1)

\* extract_current_folder
extract_current_folder(options) ==
    LET val == options.current_folder
    IN IF val.t = "s" /\ val.s # <<>> THEN Some(val.s)
       ELSE IF val.t = "ay" /\ UntilNul(AsU8(val.b)) # <<>>
            THEN FromUtf8(UntilNul(AsU8(val.b)))
       ELSE None

\* extract_current_name
extract_current_name(options) ==
    LET val == options.current_name
    IN IF val.t = "s" /\ val.s # <<>> THEN Some(val.s) ELSE None

RECURSIVE FilenamesOf(_)
\* the filter_map over the items of "files"
FilenamesOf(items) ==
    IF items = <<>> THEN <<>>
    ELSE LET item == Head(items)
             name == IF item.t = "s" THEN Some(item.s)
                     ELSE IF item.t = "ay" THEN FromUtf8(UntilNul(AsU8(item.b)))
                     ELSE None
         IN name \o FilenamesOf(Tail(items))

\* extract_filenames
extract_filenames(options) ==
    IF options.files.t = "array" THEN FilenamesOf(options.files.items) ELSE <<>>

RECURSIVE PatternsOfAnyType(_)
\* the patterns of one filter, kept whatever their match_type
PatternsOfAnyType(pats) ==
    IF pats = <<>> THEN <<>>
    ELSE LET pat == Head(pats)
         IN (IF Len(pat) >= 2 /\ pat[2] # <<>> THEN <<pat[2]>> ELSE <<>>)
            \o PatternsOfAnyType(Tail(pats))

RECURSIVE PatternsOf(_)
\* parse_filters: the patterns kept of one filter; a pattern is
\* <<match_type, glob>>
PatternsOf(pats) ==
    IF pats = <<>> THEN <<>>
    ELSE LET pat == Head(pats)
         IN (IF Len(pat) >= 2 /\ pat[1] = 0 /\ pat[2] # <<>> THEN <<pat[2]>> ELSE <<>>)
            \o PatternsOf(Tail(pats))

RECURSIVE FiltersOf(_)
\* parse_filters: the loop over the filters; a filter is <<name, patterns>>
FiltersOf(items) ==
    IF items = <<>> THEN <<>>
    ELSE LET tuple    == Head(items)
             patterns == IF Len(tuple) >= 2 THEN PatternsOf(tuple[2]) ELSE <<>>
         IN (IF patterns # <<>> THEN <<[name |-> tuple[1], patterns |-> patterns]>>
             ELSE <<>>)
            \o FiltersOf(Tail(items))

\* parse_filters
parse_filters(options) ==
    IF options.filters.t = "array" THEN FiltersOf(options.filters.items) ELSE <<>>

-----------------------------------------------------------------------------
(* The picker's command line *)

FlagPicker == <<"-", "-", "p", "i", "c", "k", "e", "r">>
FlagPickerDirs == <<"-", "-", "p", "i", "c", "k", "e", "r", "-", "d", "i", "r", "s">>
FlagPickerBoth == <<"-", "-", "p", "i", "c", "k", "e", "r", "-", "b", "o", "t", "h">>
FlagPickerSave == <<"-", "-", "p", "i", "c", "k", "e", "r", "-", "s", "a", "v", "e">>
FlagMultiple == <<"-", "-", "m", "u", "l", "t", "i", "p", "l", "e">>
FlagTypes == <<"-", "-", "t", "y", "p", "e", "s">>
FlagStartDir == <<"-", "-", "s", "t", "a", "r", "t", "-", "d", "i", "r">>
FlagCurrentName == <<"-", "-", "c", "u", "r", "r", "e", "n", "t", "-", "n", "a", "m", "e">>

StarDot == <<"*", ".">>

RECURSIVE StripStarDot(_)
\* filter_map(|p| p.strip_prefix("*.")) over the patterns of one filter
StripStarDot(patterns) ==
    IF patterns = <<>> THEN <<>>
    ELSE (IF IsPrefix(StarDot, Head(patterns))
          THEN <<SubSeq(Head(patterns), 3, Len(Head(patterns)))>> ELSE <<>>)
         \o StripStarDot(Tail(patterns))

RECURSIVE Extensions(_)
\* build_picker_args: extensions, the flat_map over the filters
Extensions(filters) ==
    IF filters = <<>> THEN <<>>
    ELSE StripStarDot(Head(filters).patterns) \o Extensions(Tail(filters))

RECURSIVE Join(_, _)
\* [String]::join
Join(strs, sep) ==
    IF strs = <<>> THEN <<>>
    ELSE IF Len(strs) = 1 THEN strs[1]
    ELSE strs[1] \o <<sep>> \o Join(Tail(strs), sep)

\* build_picker_args without the test that extensions is not empty
build_picker_args_always_types(mode, multiple, filters, current_folder, current_name) ==
    <<mode>>
    \o (IF multiple THEN <<FlagMultiple>> ELSE <<>>)
    \o <<FlagTypes, Join(Extensions(filters), ",")>>
    \o (IF current_folder # None THEN <<FlagStartDir, current_folder[1]>> ELSE <<>>)
    \o (IF current_name # None THEN <<FlagCurrentName, current_name[1]>> ELSE <<>>)

\* build_picker_args
build_picker_args(mode, multiple, filters, current_folder, current_name) ==
    <<mode>>
    \o (IF multiple THEN <<FlagMultiple>> ELSE <<>>)
    \o (IF Extensions(filters) # <<>>
        THEN <<FlagTypes, Join(Extensions(filters), ",")>> ELSE <<>>)
    \o (IF current_folder # None THEN <<FlagStartDir, current_folder[1]>> ELSE <<>>)
    \o (IF current_name # None THEN <<FlagCurrentName, current_name[1]>> ELSE <<>>)

\* open_file: the arguments the picker is launched with
open_file_args(options) ==
    build_picker_args(
        IF extract_bool(options, "directory") THEN FlagPickerDirs ELSE FlagPicker,
        extract_bool(options, "multiple"),
        parse_filters(options),
        extract_current_folder(options),
        None)

\* a save_file that takes the mode and --multiple from the options, as
\* open_file does
save_file_args_like_open(options) ==
    build_picker_args(
        IF extract_bool(options, "directory") THEN FlagPickerDirs ELSE FlagPickerSave,
        extract_bool(options, "multiple"),
        parse_filters(options),
        extract_current_folder(options),
        extract_current_name(options))

\* save_file: the arguments the picker is launched with
save_file_args(options) ==
    build_picker_args(FlagPickerSave, FALSE, parse_filters(options),
                      extract_current_folder(options), extract_current_name(options))

\* save_files: the arguments the picker is launched with
save_files_args(options) ==
    build_picker_args(FlagPickerDirs, FALSE, <<>>, extract_current_folder(options), None)

-----------------------------------------------------------------------------
(* A portal method call and its picker child *)

MaxSel == 2

Pa == <<"/", "a">>
Pa_b == <<"/", "a", " ", "b">>
PaLFb == <<"/", "a", LF, "b">>
PaCR == <<"/", "a", CR>>
PInject == <<"/", "c", LF>> \o SelectedPrefix \o <<"/", "b">>

PickerPaths == {Pa, Pa_b, PaLFb, PaCR, PInject}

Selections == UNION {[1..n -> PickerPaths] : n \in 0..MaxSel}

Methods == {"OpenFile", "SaveFile", "SaveFiles"}

BoolForms == {Absent, Bool(TRUE), Bool(FALSE)}

FolderForms ==
    {Absent, Str(<<"/", "d">>), Str(<<>>), ByteArray(<<47, 100, 0>>),
     ByteArray(<<0, 47>>), ByteArray(<<255, 0>>), Str(FlagPickerSave)}

NameForms ==
    {Absent, Str(<<"n">>), Str(<<>>), ByteArray(<<110, 0>>), ByteArray(<<0>>)}

Png == <<"*", ".", "p", "n", "g">>
Jpg == <<"*", ".", "j", "p", "g">>

FilterForms ==
    {Absent,
     Array(<< <<"Images", <<<<0, Png>>, <<0, Jpg>>>>>> >>),
     Array(<< <<"Text", <<<<1, <<"t", "e", "x", "t", "/", "p", "l", "a", "i", "n">>>>, <<0, <<"*", ".", "t", "x", "t">>>>>>>>,
              <<"Short">>,
              <<"Png", <<<<0, Png>>>>>> >>),
     Array(<< <<"Named", <<<<0, <<"R", "E", "A", "D", "M", "E">>>>>>>>,
              <<"Mime", <<<<1, Png>>>>>> >>),
     Array(<< <<"Png", <<<<0, Png>>>>>>,
              <<"Again", <<<<0, Png>>, <<0, StarDot>>>>>> >>)}

FilesForms ==
    {Absent,
     Array(<<Str(<<"x">>)>>),
     Array(<<ByteArray(<<120, 0, 121>>), Str(<<"y", " ">>)>>),
     Array(<<Str(<<>>)>>),
     Array(<<ByteArray(<<0>>), Str(<<"x">>)>>),
     Array(<<Str(<<".", ".">>), Str(<<"a", "/", "b">>)>>)}

NoOptions ==
    [multiple |-> Absent, directory |-> Absent, current_folder |-> Absent,
     current_name |-> Absent, filters |-> Absent, files |-> Absent]

\* the options a method is called with
OptionsOf(m) ==
    CASE m = "OpenFile" ->
            [multiple : BoolForms, directory : BoolForms, current_folder : FolderForms,
             current_name : {Absent, Str(<<"n">>)}, filters : FilterForms,
             files : {Absent}]
      [] m = "SaveFile" ->
            [multiple : {Absent, Bool(TRUE)}, directory : {Absent, Bool(TRUE)},
             current_folder : FolderForms, current_name : NameForms,
             filters : FilterForms, files : {Absent}]
      [] m = "SaveFiles" ->
            [multiple : {Absent, Bool(TRUE)}, directory : {Absent},
             current_folder : FolderForms, current_name : {Absent},
             filters : {Absent, Array(<< <<"Images", <<<<0, Png>>, <<0, Jpg>>>>>> >>)},
             files : FilesForms]

\* the arguments a method launches the picker with
ArgsOf(m, options) ==
    CASE m = "OpenFile"  -> open_file_args(options)
      [] m = "SaveFile"  -> save_file_args(options)
      [] m = "SaveFiles" -> save_files_args(options)

NoChild == [spawned |-> FALSE, exit |-> 0, stdout |-> <<>>]

NoReply == [code |-> 2, results |-> EmptyMap]

IdlePortal ==
    [pc |-> "idle", method |-> "", options |-> NoOptions, args |-> <<>>,
     filenames |-> <<>>, child |-> NoChild,
     how |-> "", sel |-> <<>>, reply |-> NoReply]

\* open_file, save_file, save_files up to the launch of the picker: the
\* options are decoded and the arguments built
PortalCall ==
    /\ portal.pc = "idle"
    /\ \E m \in Methods :
         \E options \in OptionsOf(m) :
           portal' = [portal EXCEPT
                        !.pc = "launching", !.method = m, !.options = options,
                        !.args = ArgsOf(m, options),
                        !.filenames = IF m = "SaveFiles"
                                      THEN extract_filenames(options) ELSE <<>>]
    /\ UNCHANGED <<ivars, fvars>>

\* Command::output() returns Err
SpawnFails ==
    /\ portal.pc = "launching"
    /\ portal' = [portal EXCEPT !.pc = "ended", !.options = NoOptions, !.how = "spawn_error",
                                !.child = NoChild]
    /\ UNCHANGED <<ivars, fvars>>

\* the picker's front end calls select_files(paths)
PickerSelect ==
    /\ portal.pc = "launching"
    /\ \E paths \in Selections :
         portal' = [portal EXCEPT !.pc = "ended", !.options = NoOptions, !.how = "select",
                                  !.sel = paths, !.child = select_files(paths)]
    /\ UNCHANGED <<ivars, fvars>>

\* the picker's front end calls cancel_picker
PickerCancel ==
    /\ portal.pc = "launching"
    /\ portal' = [portal EXCEPT !.pc = "ended", !.options = NoOptions, !.how = "cancel",
                                !.child = cancel_picker]
    /\ UNCHANGED <<ivars, fvars>>

\* the picker ends without either command, with any status
PickerClosed ==
    /\ portal.pc = "launching"
    /\ \E code \in {0, 1} :
         portal' = [portal EXCEPT !.pc = "ended", !.options = NoOptions, !.how = "closed",
                      !.child = [spawned |-> TRUE, exit |-> code, stdout |-> <<>>]]
    /\ UNCHANGED <<ivars, fvars>>

\* select_files has printed its lines and the process is killed before
\* exit(0) takes effect
PickerDies ==
    /\ portal.pc = "launching"
    /\ \E paths \in Selections :
         portal' = [portal EXCEPT !.pc = "ended", !.options = NoOptions, !.how = "dies", !.sel = paths,
                      !.child = [select_files(paths) EXCEPT !.exit = 1]]
    /\ UNCHANGED <<ivars, fvars>>

\* the rest of open_file, save_file, save_files
PortalReply ==
    /\ portal.pc = "ended"
    /\ portal' = [portal EXCEPT !.pc = "replied",
                    !.reply = IF portal.method = "SaveFiles"
                              THEN save_files_reply(portal.child, portal.filenames)
                              ELSE open_file_reply(portal.child)]
    /\ UNCHANGED <<ivars, fvars>>

\* the reply is sent; the portal serves the next call
PortalDone ==
    /\ portal.pc = "replied"
    /\ portal' = IdlePortal
    /\ UNCHANGED <<ivars, fvars>>

-----------------------------------------------------------------------------
(* The picker process: run() parses its command line *)

MaxArgs == 3

Prog == <<"h", "b">>

ModeFlags == {FlagPicker, FlagPickerDirs, FlagPickerBoth, FlagPickerSave}

ValueFlags == {FlagTypes, FlagStartDir, FlagCurrentName}

\* the words a command line is made of
ArgWords ==
    ModeFlags \cup ValueFlags \cup {FlagMultiple, <<"a", ",", "b">>, <<"x">>}

\* the command lines: argv[0] and up to MaxArgs words
Argvs == UNION {{<<Prog>> \o w : w \in [1..n -> ArgWords]} : n \in 0..MaxArgs}

RECURSIVE SplitOn(_, _)
\* str::split on one character
SplitOn(str, sep) ==
    LET k == FirstIndex(str, sep)
    IN IF k = 0 THEN <<str>>
       ELSE <<SubSeq(str, 1, k - 1)>> \o SplitOn(SubSeq(str, k + 1, Len(str)), sep)

\* the values the parser starts from
DefaultConfig ==
    [mode |-> "Disabled", allow_multiple |-> FALSE, file_types |-> None,
     start_dir |-> None, current_name |-> None]

RECURSIVE ParseFromNoSkip(_, _, _)
\* a loop that does not step over the value of a value flag
ParseFromNoSkip(args, i, cfg) ==
    IF i > Len(args) THEN cfg
    ELSE LET a    == args[i]
             more == i + 1 <= Len(args)
         IN ParseFromNoSkip(args, i + 1,
              CASE a = FlagPicker     -> [cfg EXCEPT !.mode = "Files"]
                [] a = FlagPickerDirs -> [cfg EXCEPT !.mode = "Directories"]
                [] a = FlagPickerBoth -> [cfg EXCEPT !.mode = "Both"]
                [] a = FlagPickerSave -> [cfg EXCEPT !.mode = "Save"]
                [] a = FlagMultiple   -> [cfg EXCEPT !.allow_multiple = TRUE]
                [] a = FlagTypes /\ more ->
                       [cfg EXCEPT !.file_types = Some(SplitOn(args[i + 1], ","))]
                [] a = FlagStartDir /\ more ->
                       [cfg EXCEPT !.start_dir = Some(args[i + 1])]
                [] a = FlagCurrentName /\ more ->
                       [cfg EXCEPT !.current_name = Some(args[i + 1])]
                [] OTHER -> cfg)

RECURSIVE ParseFrom(_, _, _)
\* run: the while loop from index i on (args[1] is argv[0])
ParseFrom(args, i, cfg) ==
    IF i > Len(args) THEN cfg
    ELSE LET a    == args[i]
             more == i + 1 <= Len(args)
         IN CASE a = FlagPicker     -> ParseFrom(args, i + 1, [cfg EXCEPT !.mode = "Files"])
              [] a = FlagPickerDirs -> ParseFrom(args, i + 1, [cfg EXCEPT !.mode = "Directories"])
              [] a = FlagPickerBoth -> ParseFrom(args, i + 1, [cfg EXCEPT !.mode = "Both"])
              [] a = FlagPickerSave -> ParseFrom(args, i + 1, [cfg EXCEPT !.mode = "Save"])
              [] a = FlagMultiple   -> ParseFrom(args, i + 1, [cfg EXCEPT !.allow_multiple = TRUE])
              [] a = FlagTypes /\ more ->
                     ParseFrom(args, i + 2,
                       [cfg EXCEPT !.file_types = Some(SplitOn(args[i + 1], ","))])
              [] a = FlagStartDir /\ more ->
                     ParseFrom(args, i + 2, [cfg EXCEPT !.start_dir = Some(args[i + 1])])
              [] a = FlagCurrentName /\ more ->
                     ParseFrom(args, i + 2, [cfg EXCEPT !.current_name = Some(args[i + 1])])
              [] OTHER -> ParseFrom(args, i + 1, cfg)

\* run: the PickerConfig made of the command line
ParseArgv(args) == ParseFrom(args, 2, DefaultConfig)

\* built: what build_picker_args was given, when the portal made the
\* command line
IdlePicker == [pc |-> "none", argv |-> <<>>, config |-> DefaultConfig, built |-> None]

\* the binary is started and run() parses its arguments
PickerRun ==
    /\ picker.pc = "none"
    /\ \E argv \in Argvs :
         picker' = [pc |-> "running", argv |-> argv, config |-> ParseArgv(argv),
                    built |-> None]
    /\ UNCHANGED <<ivars, portal, uri, search, listing, locks, bus>>

\* the filter lists, folders and names build_picker_args is given
LaunchFilters ==
    {<<>>,
     <<[name |-> <<"I">>, patterns |-> <<Png, Jpg>>]>>,
     <<[name |-> <<"A">>, patterns |-> <<<<"*", ".", "a", ",", "b">>>>]>>,
     <<[name |-> <<"R">>, patterns |-> <<<<"R", "E", "A", "D", "M", "E">>>>]>>,
     <<[name |-> <<"D">>, patterns |-> <<StarDot>>]>>,
     <<[name |-> <<"P">>, patterns |-> <<Png>>], [name |-> <<"J">>, patterns |-> <<Jpg, Png>>]>>}

LaunchFolders == {None, Some(<<"/", "d">>), Some(FlagMultiple), Some(FlagTypes)}

LaunchNames == {None, Some(<<"n">>), Some(FlagMultiple), Some(FlagStartDir)}

\* launch_picker: Command::new(hardbore_path).args(args) with the args of
\* build_picker_args, and run() of the started binary parsing them
PickerLaunch ==
    /\ picker.pc = "none"
    /\ \E mode \in ModeFlags, multiple \in BOOLEAN, filters \in LaunchFilters,
          folder \in LaunchFolders, name \in LaunchNames :
         LET argv == <<Prog>> \o build_picker_args(mode, multiple, filters, folder, name)
         IN picker' = [pc |-> "running", argv |-> argv, config |-> ParseArgv(argv),
                       built |-> Some([mode |-> mode, multiple |-> multiple,
                                       extensions |-> Extensions(filters),
                                       folder |-> folder, name |-> name])]
    /\ UNCHANGED <<ivars, portal, uri, search, listing, locks, bus>>

\* the process ends
PickerEnd ==
    /\ picker.pc = "running"
    /\ picker' = IdlePicker
    /\ UNCHANGED <<ivars, portal, uri, search, listing, locks, bus>>

-----------------------------------------------------------------------------
(* encode_file_uri applied to a path *)

MaxPathLen == 3

UriChars == {"/", "a", "%", " ", UUml, "2", "0", "."}

S6Path == <<"/", "t", "m", "p", "/", "a", " ", "b", "/", UUml, "n", "i", "c", "o", "d", "e", ".", "t", "x", "t">>

PathsUpTo(n) == UNION {{<<"/">> \o w : w \in [1..k -> UriChars]} : k \in 0..n}

\* the absolute paths that are encoded
UriPaths == PathsUpTo(MaxPathLen) \cup {S6Path}

NoUri == [pc |-> "none", path |-> <<>>, encoded |-> <<>>]

NoSearch ==
    [op |-> "none", query |-> <<>>, limit |-> 0, ok |-> TRUE, ok2 |-> TRUE,
     init |-> FALSE,
     files |-> {}, fts |-> EmptyBag, match |-> <<>>, via |-> "none", results |-> <<>>, count |-> 0]

\* encode_file_uri is called with a path
UriEncode ==
    /\ uri.pc = "none"
    /\ \E path \in UriPaths :
         uri' = [pc |-> "encoded", path |-> path, encoded |-> encode_file_uri(path)]
    /\ UNCHANGED <<ivars, portal, picker, search, listing, locks, bus>>

\* the URI is handed on
UriDone ==
    /\ uri.pc = "encoded"
    /\ uri' = NoUri
    /\ UNCHANGED <<ivars, portal, picker, search, listing, locks, bus>>

-----------------------------------------------------------------------------
(* fs_engine: get_file_entry, read_directory, crawl_directory over a tree
   with directories, files, symlinks and entries that cannot be read.
   A path is the sequence of its components; <<>> is "/" *)

N_t      == <<"t">>
N_sub    == <<"s", "u", "b">>
N_hidden == <<".", "h", "i", "d", "d", "e", "n">>
N_a_txt  == <<"a", ".", "t", "x", "t">>
N_B_txt  == <<"B", ".", "t", "x", "t">>
N_b_TXT  == <<"b", ".", "T", "X", "T">>
N_ld     == <<"l", "d">>
N_lf     == <<"l", "f">>
N_lb     == <<"l", "b">>
N_x      == <<"x">>
N_dot_y  == <<".", "y">>
N_z      == <<"z">>
N_nope   == <<"n", "o", "p", "e">>
N_e_dot  == <<"e", ".">>
N_a_b_C  == <<"a", ".", "b", ".", "C">>
N_v_d    == <<"v", ".", "d">>

\* the nodes: size is what Metadata::len gives for the node itself
Tree ==
    {[path |-> <<>>,                    kind |-> "dir",  size |-> 4, target |-> <<>>],
     [path |-> <<N_t>>,                 kind |-> "dir",  size |-> 4, target |-> <<>>],
     [path |-> <<N_t, N_sub>>,          kind |-> "dir",  size |-> 4, target |-> <<>>],
     [path |-> <<N_t, N_hidden>>,       kind |-> "file", size |-> 5, target |-> <<>>],
     [path |-> <<N_t, N_a_txt>>,        kind |-> "file", size |-> 2, target |-> <<>>],
     [path |-> <<N_t, N_B_txt>>,        kind |-> "file", size |-> 3, target |-> <<>>],
     [path |-> <<N_t, N_b_TXT>>,        kind |-> "file", size |-> 1, target |-> <<>>],
     [path |-> <<N_t, N_ld>>,           kind |-> "link", size |-> 6, target |-> <<N_t, N_sub>>],
     [path |-> <<N_t, N_lf>>,           kind |-> "link", size |-> 8, target |-> <<N_t, N_a_txt>>],
     [path |-> <<N_t, N_lb>>,           kind |-> "link", size |-> 7, target |-> <<N_t, N_nope>>],
     [path |-> <<N_t, N_sub, N_x>>,     kind |-> "file", size |-> 1, target |-> <<>>],
     [path |-> <<N_t, N_sub, N_dot_y>>, kind |-> "dir",  size |-> 4, target |-> <<>>],
     [path |-> <<N_t, N_sub, N_dot_y, N_z>>, kind |-> "file", size |-> 2, target |-> <<>>],
     [path |-> <<N_t, N_sub, N_dot_y, N_e_dot>>, kind |-> "file", size |-> 1, target |-> <<>>],
     [path |-> <<N_t, N_sub, N_dot_y, N_a_b_C>>, kind |-> "file", size |-> 3, target |-> <<>>],
     [path |-> <<N_t, N_sub, N_dot_y, N_v_d>>, kind |-> "dir", size |-> 4, target |-> <<>>]}

IsNode(p) == \E n \in Tree : n.path = p

NodeAt(p) == CHOOSE n \in Tree : n.path = p

ChildrenOf(p) ==
    {n.path : n \in {m \in Tree : Len(m.path) = Len(p) + 1 /\ IsPrefix(p, m.path)}}

\* what the environment refuses: denied holds the paths whose metadata
\* cannot be read, unlistable the directories whose read_dir fails
Envs ==
    [denied : SUBSET {<<N_t, N_a_txt>>, <<N_t, N_sub>>, <<N_t, N_sub, N_dot_y>>},
     unlistable : SUBSET {<<N_t>>, <<N_t, N_sub>>}]

RECURSIVE LinkPath(_)
\* the node a path names, the symlinks of its parent components followed
\* and its last component not; None when there is none
LinkPath(p) ==
    IF p = <<>> THEN Some(NodeAt(<<>>))
    ELSE LET up == LinkPath(SubSeq(p, 1, Len(p) - 1))
         IN IF up = None THEN None
            ELSE LET dir == IF up[1].kind = "link" THEN up[1].target ELSE up[1].path
                     q   == dir \o <<p[Len(p)]>>
                 IN IF IsNode(dir) /\ NodeAt(dir).kind = "dir" /\ IsNode(q)
                    THEN Some(NodeAt(q)) ELSE None

\* fs::symlink_metadata(path).ok()
symlink_metadata(env, p) ==
    IF p \in env.denied THEN None ELSE LinkPath(p)

\* fs::metadata(path).ok(): a symlink is followed
metadata(env, p) ==
    LET lm == symlink_metadata(env, p)
    IN IF lm = None THEN None
       ELSE IF lm[1].kind # "link" THEN lm
       ELSE IF IsNode(lm[1].target) THEN Some(NodeAt(lm[1].target))
       ELSE None

\* an extension taken after the first dot that has something before it
extension_first_dot(name) ==
    LET dots == {i \in DOMAIN name : name[i] = "." /\ i > 1}
    IN IF dots = {} THEN None
       ELSE LET d == CHOOSE i \in dots : \A j \in dots : i <= j
            IN Some(LowerAll(SubSeq(name, d + 1, Len(name))))

\* Path::extension, lowercased: the part of the name after its last dot,
\* unless the name has no dot or its last dot is the first character
extension(name) ==
    LET dots == {i \in DOMAIN name : name[i] = "."}
    IN IF dots = {} \/ Max(dots) = 1 THEN None
       ELSE Some(LowerAll(SubSeq(name, Max(dots) + 1, Len(name))))

\* get_file_entry that reports the length of the entry whatever it is
get_file_entry_raw_size(env, p) ==
    LET lm == symlink_metadata(env, p)
    IN IF lm = None \/ p = <<>> THEN None
       ELSE LET name       == p[Len(p)]
                is_symlink == lm[1].kind = "link"
                real       == IF is_symlink THEN metadata(env, p) ELSE lm
                is_dir     == IF real = None THEN FALSE ELSE real[1].kind = "dir"
                size       == IF real # None THEN real[1].size ELSE lm[1].size
            IN Some([name |-> name, path |-> p, is_dir |-> is_dir,
                     is_symlink |-> is_symlink, size |-> size,
                     extension |-> IF is_dir THEN None ELSE extension(name),
                     hidden |-> name[1] = "."])

\* get_file_entry(path): None when symlink_metadata fails or the path has no
\* file name, as "/" has none
get_file_entry(env, p) ==
    LET lm == symlink_metadata(env, p)
    IN IF lm = None \/ p = <<>> THEN None
       ELSE LET name       == p[Len(p)]
                is_symlink == lm[1].kind = "link"
                real       == IF is_symlink THEN metadata(env, p) ELSE lm
                is_dir     == IF real = None THEN FALSE ELSE real[1].kind = "dir"
                size       == IF is_dir THEN 0
                              ELSE IF real # None THEN real[1].size ELSE lm[1].size
            IN Some([name |-> name, path |-> p, is_dir |-> is_dir,
                     is_symlink |-> is_symlink, size |-> size,
                     extension |-> IF is_dir THEN None ELSE extension(name),
                     hidden |-> name[1] = "."])

RECURSIVE StrLess(_, _)
\* str::cmp is Less: byte by byte, a proper prefix first
StrLess(a, b) ==
    IF b = <<>> THEN FALSE
    ELSE IF a = <<>> THEN TRUE
    ELSE IF ByteOf(Head(a)) # ByteOf(Head(b)) THEN ByteOf(Head(a)) < ByteOf(Head(b))
    ELSE StrLess(Tail(a), Tail(b))

\* the comparison of the sort without to_lowercase
EntryLessCaseSensitive(a, b) ==
    IF a.is_dir /\ ~b.is_dir THEN TRUE
    ELSE IF ~a.is_dir /\ b.is_dir THEN FALSE
    ELSE StrLess(a.name, b.name)

\* read_directory: the closure given to sort_by returns Less
EntryLess(a, b) ==
    IF a.is_dir /\ ~b.is_dir THEN TRUE
    ELSE IF ~a.is_dir /\ b.is_dir THEN FALSE
    ELSE StrLess(LowerAll(a.name), LowerAll(b.name))

RECURSIVE SortedSeqs(_)
\* entries.sort_by(..) of the entries in whatever order read_dir gave them:
\* the sort is stable, so entries that compare Equal come in either order
SortedSeqs(S) ==
    IF S = {} THEN {<<>>}
    ELSE UNION {{<<m>> \o t : t \in SortedSeqs(S \ {m})} :
                m \in {x \in S : \A y \in S : ~EntryLess(y, x)}}

\* a filter that lets every entry through
VisibleAll(entries, show_hidden) == entries

\* .filter(|entry| show_hidden || !entry.hidden)
Visible(entries, show_hidden) == {e \in entries : show_hidden \/ ~e.hidden}

RECURSIVE SumSizes(_)
SumSizes(s) == IF s = <<>> THEN 0 ELSE Head(s).size + SumSizes(Tail(s))

ErrNotFound == "Path does not exist"
ErrNotADirectory == "Path is not a directory"
ErrIo == "Failed to read directory"

Err(msg) == [ok |-> FALSE, err |-> msg, entries |-> <<>>, total_items |-> 0, total_size |-> 0]

\* the entries of the children of the directory that p leads to
EntriesIn(env, p) ==
    LET paths == {p \o <<c[Len(c)]>> : c \in ChildrenOf(metadata(env, p)[1].path)}
    IN {get_file_entry(env, c)[1] : c \in {x \in paths : get_file_entry(env, x) # None}}

\* read_directory that tests is_dir before exists
read_directory_dir_first(env, p, show_hidden) ==
    IF metadata(env, p) = None \/ metadata(env, p)[1].kind # "dir"
    THEN {Err(ErrNotADirectory)}
    ELSE IF metadata(env, p)[1].path \in env.unlistable THEN {Err(ErrIo)}
    ELSE {[ok |-> TRUE, err |-> "", entries |-> s, total_items |-> Len(s),
           total_size |-> SumSizes(s)] :
             s \in SortedSeqs(Visible(EntriesIn(env, p), show_hidden))}

\* read_directory(path, show_hidden): the possible results
read_directory(env, p, show_hidden) ==
    IF metadata(env, p) = None THEN {Err(ErrNotFound)}
    ELSE IF metadata(env, p)[1].kind # "dir" THEN {Err(ErrNotADirectory)}
    ELSE IF metadata(env, p)[1].path \in env.unlistable THEN {Err(ErrIo)}
    ELSE {[ok |-> TRUE, err |-> "", entries |-> s, total_items |-> Len(s),
           total_size |-> SumSizes(s)] :
             s \in SortedSeqs(Visible(EntriesIn(env, p), show_hidden))}

RECURSIVE Walk(_, _, _, _)
\* a walk that stops one level early
WalkShort(env, p, k, max_depth) ==
    {p} \cup
    IF /\ NodeAt(p).kind = "dir"
       /\ p \notin env.unlistable
       /\ (max_depth = -1 \/ k + 1 < max_depth)
    THEN UNION {Walk(env, c, k + 1, max_depth) : c \in ChildrenOf(p)}
    ELSE {}

\* the paths WalkDir yields from p, which is at depth k: p itself, and the
\* walk of its children when p is a directory that can be listed and k is
\* below max_depth (-1: None); a symlink is not followed
Walk(env, p, k, max_depth) ==
    {p} \cup
    IF /\ NodeAt(p).kind = "dir"
       /\ p \notin env.unlistable
       /\ (max_depth = -1 \/ k < max_depth)
    THEN UNION {Walk(env, c, k + 1, max_depth) : c \in ChildrenOf(p)}
    ELSE {}

\* crawl_directory(root, max_depth) on this tree: the entries collected, in
\* no particular order; the walker yields every path once, and a root that
\* does not exist yields an error that is dropped
CrawlEntries(env, root, max_depth) ==
    IF ~IsNode(root) THEN {}
    ELSE {get_file_entry(env, c)[1] :
            c \in {x \in Walk(env, root, 0, max_depth) : get_file_entry(env, x) # None}}

\* the paths read_directory is called with
ReadPaths ==
    {<<>>, <<N_t>>, <<N_t, N_sub>>, <<N_t, N_a_txt>>, <<N_t, N_ld>>, <<N_t, N_lb>>,
     <<N_nope>>}

\* the roots and depths crawl_directory is called with
CrawlRoots == {<<>>, <<N_t>>, <<N_t, N_sub>>, <<N_t, N_a_txt>>, <<N_nope>>}

Depths == {-1, 0, 1, 2}

NoListing ==
    [op |-> "none", env |-> [denied |-> {}, unlistable |-> {}], path |-> <<>>,
     show_hidden |-> FALSE, max_depth |-> -1, result |-> Err(""), entries |-> {}]

\* read_directory is called
ReadDirectory ==
    /\ listing.op = "none"
    /\ \E env \in Envs, p \in ReadPaths, h \in BOOLEAN :
         \E r \in read_directory(env, p, h) :
           listing' = [NoListing EXCEPT !.op = "read", !.env = env, !.path = p,
                         !.show_hidden = h, !.result = r]
    /\ UNCHANGED <<ivars, portal, picker, uri, search, locks, bus>>

\* crawl_directory is called
CrawlDirectory ==
    /\ listing.op = "none"
    /\ \E env \in Envs, root \in CrawlRoots, d \in Depths :
         listing' = [NoListing EXCEPT !.op = "crawl", !.env = env, !.path = root,
                       !.max_depth = d,
                       !.entries = CrawlEntries(env, root, d)]
    /\ UNCHANGED <<ivars, portal, picker, uri, search, locks, bus>>

\* the caller has its answer
ListingDone ==
    /\ listing.op # "none"
    /\ listing' = NoListing
    /\ UNCHANGED <<ivars, portal, picker, uri, search, locks, bus>>

-----------------------------------------------------------------------------
(* The application's indexer mutex and the Indexer's status mutex: the
   command handlers and the ingest threads, one step per lock operation *)

MaxCalls == 3

Handlers == {1, 2}

Commands ==
    {"start_indexing", "get_indexer_status", "search_files", "get_indexed_count",
     "clear_index"}

\* the numbers of rows an ingest thread has to insert
RowCounts == {0, BATCH_SIZE + 1}

\* the thread of handler h, of ingest thread w
Handler(h) == <<"h", h>>
Ingest(w) == <<"w", w>>

IdleLocks ==
    [indexer |-> None, status |-> None,
     h |-> [x \in Handlers |-> [pc |-> "idle", cmd |-> ""]],
     t |-> [w \in Workers |-> [pc |-> "unborn", i |-> 0, n |-> 0]],
     calls |-> 0, spawns |-> 0]

\* the mutex a handler locks at pc: state.indexer.lock() on entry,
\* self.status.lock() in get_status
HandlerAcquires(pc) ==
    CASE pc = "lock_indexer" -> "indexer"
      [] pc = "lock_status"  -> "status"
      [] OTHER               -> "none"

\* a get_status whose guard on the status outlives the call
HandlerKeepsStatus(pc) ==
    IF pc = "return" THEN "indexer" ELSE "none"

\* the guard a handler drops at pc: the temporary of get_status at the end
\* of its statement, the indexer guard when the handler returns
HandlerReleases(pc) ==
    CASE pc = "read_status" -> "status"
      [] pc = "return"      -> "indexer"
      [] OTHER              -> "none"

\* where a handler goes from pc
HandlerGoto(cmd, pc) ==
    CASE pc = "lock_indexer" -> "call"
      [] pc = "call"         -> IF cmd = "get_indexer_status" THEN "lock_status"
                                ELSE "return"
      [] pc = "lock_status"  -> "read_status"
      [] pc = "read_status"  -> "return"
      [] pc = "return"       -> "idle"

\* the three status.lock() of the ingest thread
WorkerAcquires(pc) == pc \in {"lock_start", "lock_batch", "lock_finish"}

\* a thread that keeps its first guard until its last block
WorkerReleasesAtFinish(pc) == pc = "publish_finish"

\* the ends of the three scopes that hold the guard
WorkerReleases(pc) == pc \in {"publish_start", "publish_batch", "publish_finish"}

\* where the ingest thread goes from pc; ok: the connection was opened and
\* the statement prepared
WorkerGoto(pc, i, n, ok) ==
    CASE pc = "lock_start"     -> [pc |-> "publish_start", i |-> i]
      [] pc = "publish_start"  -> [pc |-> "crawl", i |-> i]
      [] pc = "crawl"          -> [pc |-> "open", i |-> i]
      [] pc = "open"           -> IF ~ok THEN [pc |-> "lock_finish", i |-> i]
                                  ELSE IF n = 0 THEN [pc |-> "final_commit", i |-> i]
                                  ELSE [pc |-> "insert", i |-> 1]
      [] pc = "insert"         -> IF i % BATCH_SIZE = 0 THEN [pc |-> "commit", i |-> i]
                                  ELSE IF i = n THEN [pc |-> "final_commit", i |-> i]
                                  ELSE [pc |-> "insert", i |-> i + 1]
      [] pc = "commit"         -> [pc |-> "lock_batch", i |-> i]
      [] pc = "lock_batch"     -> [pc |-> "publish_batch", i |-> i]
      [] pc = "publish_batch"  -> IF i = n THEN [pc |-> "final_commit", i |-> i]
                                  ELSE [pc |-> "insert", i |-> i + 1]
      [] pc = "final_commit"   -> [pc |-> "lock_finish", i |-> i]
      [] pc = "lock_finish"    -> [pc |-> "publish_finish", i |-> i]
      [] pc = "publish_finish" -> [pc |-> "ended", i |-> i]

\* the front end invokes a command: the handler starts on its thread
HCall(h) ==
    /\ locks.h[h].pc = "idle"
    /\ locks.calls < MaxCalls
    /\ \E cmd \in Commands :
        /\ cmd = "start_indexing" => locks.spawns < Cardinality(Workers)
        /\ locks' = [locks EXCEPT
              !.h[h] = [pc |-> "lock_indexer", cmd |-> cmd],
              !.calls = @ + 1,
              !.spawns = IF cmd = "start_indexing" THEN @ + 1 ELSE @]
    /\ UNCHANGED <<ivars, portal, picker, uri, search, listing, bus>>

\* one step of a handler: a lock() waits until the mutex is free; the call
\* into the Indexer is made with the indexer mutex held; start_indexing
\* spawns the ingest thread and returns. cmd is kept until the call is made
HStep(h) ==
    LET me  == locks.h[h]
        acq == HandlerAcquires(me.pc)
        rel == HandlerReleases(me.pc)
        new == CHOOSE w \in Workers :
                  /\ locks.t[w].pc = "unborn"
                  /\ \A v \in Workers : locks.t[v].pc = "unborn" => w <= v
    IN /\ me.pc # "idle"
       /\ acq = "indexer" => locks.indexer = None
       /\ acq = "status" => locks.status = None
       /\ locks' = [locks EXCEPT
             !.indexer = IF acq = "indexer" THEN Handler(h)
                         ELSE IF rel = "indexer" /\ @ = Handler(h) THEN None ELSE @,
             !.status = IF acq = "status" THEN Handler(h)
                        ELSE IF rel = "status" /\ @ = Handler(h) THEN None ELSE @,
             !.h[h] = IF HandlerGoto(me.cmd, me.pc) \in {"return", "idle"}
                      THEN [pc |-> HandlerGoto(me.cmd, me.pc), cmd |-> ""]
                      ELSE [me EXCEPT !.pc = HandlerGoto(me.cmd, me.pc)],
             !.t = IF me.pc = "call" /\ me.cmd = "start_indexing"
                   THEN [@ EXCEPT ![new] = [pc |-> "lock_start", i |-> 0, n |-> 0]]
                   ELSE @]
       /\ UNCHANGED <<ivars, portal, picker, uri, search, listing, bus>>

\* one step of an ingest thread; the crawl fixes the number of rows
TStep(w) ==
    LET me == locks.t[w]
    IN /\ me.pc \notin {"unborn", "ended"}
       /\ WorkerAcquires(me.pc) => locks.status = None
       /\ \E ok \in BOOLEAN, n \in RowCounts :
           /\ me.pc # "open" => ok
           /\ IF me.pc = "crawl" THEN TRUE ELSE n = me.n
           /\ locks' = [locks EXCEPT
                 !.status = IF WorkerAcquires(me.pc) THEN Ingest(w)
                            ELSE IF WorkerReleases(me.pc) /\ @ = Ingest(w) THEN None ELSE @,
                 !.t[w] = [pc |-> WorkerGoto(me.pc, me.i, n, ok).pc,
                           i |-> WorkerGoto(me.pc, me.i, n, ok).i,
                           n |-> n]]
       /\ UNCHANGED <<ivars, portal, picker, uri, search, listing, bus>>

-----------------------------------------------------------------------------
(* Method calls of the portal that overlap: each call is a task of its own
   and owns the picker it spawned *)

Calls == {1, 2}

\* the options of the overlapping calls
BusOptions(m) ==
    CASE m = "OpenFile"  -> {NoOptions, [NoOptions EXCEPT !.multiple = Bool(TRUE)]}
      [] m = "SaveFile"  -> {[NoOptions EXCEPT !.current_name = Str(<<"n">>)]}
      [] m = "SaveFiles" -> {[NoOptions EXCEPT !.files = Array(<<Str(<<"x">>)>>)]}

\* the ways a picker ends: Command::output() fails, or gives an exit status
\* and the bytes of stdout
BusOutputs ==
    {NoChild, cancel_picker, [spawned |-> TRUE, exit |-> 0, stdout |-> <<>>]}
    \cup {select_files(paths) : paths \in {<<Pa>>, <<Pa_b>>, <<Pa, Pa_b>>}}

IdleCall ==
    [pc |-> "idle", method |-> "", args |-> <<>>, filenames |-> <<>>,
     child |-> NoChild, reply |-> NoReply]

IdleBus == [c \in Calls |-> IdleCall]

\* the filename lists the calls carry
BusFilenames ==
    {extract_filenames(o) : o \in UNION {BusOptions(m) : m \in Methods}}

\* the rest of open_file, save_file, save_files after launch_picker's
\* await, tabulated over the methods, the outputs of the picker and the
\* filenames
HandlerReplies ==
    [m \in Methods |-> [out \in BusOutputs |-> [fs \in BusFilenames |->
        IF m = "SaveFiles" THEN save_files_reply(out, fs) ELSE open_file_reply(out)]]]

\* a handler that reads the output of the first call's picker
OutputOfFirst(b, c) == b[1].child

\* let output = Command::new(..).output().await: the Output of the child
\* this call spawned, a local of the call's future
OutputOf(b, c) == b[c].child

\* open_file, save_file, save_files up to .output().await: the handler
\* builds its arguments, spawns its picker and is suspended
BusCall(c) ==
    /\ bus[c].pc = "idle"
    /\ \E m \in Methods : \E options \in BusOptions(m) :
         bus' = [bus EXCEPT ![c] =
                   [IdleCall EXCEPT !.pc = "awaiting", !.method = m,
                                    !.args = ArgsOf(m, options),
                                    !.filenames = IF m = "SaveFiles"
                                                  THEN extract_filenames(options)
                                                  ELSE <<>>]]
    /\ UNCHANGED <<ivars, portal, picker, uri, search, listing, locks>>

\* the picker of call c ends, or could not be started
BusPickerExit(c) ==
    /\ bus[c].pc = "awaiting"
    /\ \E out \in BusOutputs :
         bus' = [bus EXCEPT ![c].pc = "resumed", ![c].child = out]
    /\ UNCHANGED <<ivars, portal, picker, uri, search, listing, locks>>

\* the handler is resumed and builds its reply
BusReply(c) ==
    /\ bus[c].pc = "resumed"
    /\ bus' = [bus EXCEPT
                 ![c].pc = "replied",
                 ![c].reply =
                     HandlerReplies[bus[c].method][OutputOf(bus, c)][bus[c].filenames]]
    /\ UNCHANGED <<ivars, portal, picker, uri, search, listing, locks>>

\* the reply is sent
BusDone(c) ==
    /\ bus[c].pc = "replied"
    /\ bus' = [bus EXCEPT ![c] = IdleCall]
    /\ UNCHANGED <<ivars, portal, picker, uri, search, listing, locks>>

-----------------------------------------------------------------------------
(* Indexer::new, clear_index *)

InitialStatus ==
    [is_running |-> FALSE, indexed_count |-> 0, current_path |-> None, elapsed_ms |-> 0]

\* ALTER TABLE files ADD COLUMN hidden: fails with "duplicate column name"
\* unless the table predates the column
AddColumnHidden(sch) ==
    IF sch = "legacy" THEN [ok |-> TRUE, schema |-> "current"]
    ELSE [ok |-> FALSE, schema |-> sch]

\* init_db with the ALTER's failure propagated by ?
init_db_strict(sch) ==
    LET created == IF sch = "none" THEN "current" ELSE sch
        altered == AddColumnHidden(created)
    IN [ok |-> altered.ok, schema |-> altered.schema]

\* init_db: CREATE ... IF NOT EXISTS, then the ALTER whose result is dropped
init_db(sch) ==
    LET created == IF sch = "none" THEN "current" ELSE sch
        altered == AddColumnHidden(created)
    IN [ok |-> TRUE, schema |-> altered.schema]

\* restore_status
restore_status(st, count) ==
    IF count > 0 THEN [st EXCEPT !.indexed_count = count] ELSE st

\* a clear that empties only the FTS table
ClearedFtsOnly(d) ==
    [files |-> d.files, fts |-> EmptyBag]

\* DELETE FROM files (files_ad fires for each row); DELETE FROM files_fts
\* scans the content table, by then empty, and so removes nothing more
ClearedDb(d) ==
    [files |-> {}, fts |-> DeleteAll(d.fts, d.files)]

AllIdle == \A w \in Workers : worker[w].pc = "idle"

NoRun == [root |-> None, maxDepth |-> -1, count |-> -1]

\* txn: the thread's connection is inside a transaction; done, failed: the
\* rows whose insert returned Ok, Err; pending: the rows of done not yet
\* committed; undone: the rows of done a rollback took back; commitFault: a
\* COMMIT of an open transaction has failed
IdleWorker ==
    [pc |-> "idle", root |-> None, maxDepth |-> -1, entries |-> <<>>, i |-> 0,
     el |-> 0, faulted |-> FALSE, solo |-> TRUE, txn |-> FALSE, done |-> {},
     failed |-> {}, pending |-> {}, undone |-> {}, commitFault |-> FALSE]

NoHistory ==
    [lastStarter |-> 0, lastFinisher |-> 0, overlapped |-> FALSE,
     crawled |-> [w \in Workers |-> -1], prevRun |-> NoRun, lastRun |-> NoRun]

LegacyDb ==
    LET r == [id |-> 1, path |-> P_s, name |-> FileName(P_s), hidden |-> FALSE]
    IN [files |-> {r}, fts |-> SetToBag({FtsEntry(r)})]

\* a data directory that is new, or holds an index written before the
\* hidden column existed; f storage failures lie ahead
InitWith(f) ==
    /\ opened = FALSE
    /\ schema \in {"none", "legacy"}
    /\ db = IF schema = "none" THEN EmptyDb ELSE LegacyDb
    /\ writer = 0
    /\ wdb = EmptyDb
    /\ status = InitialStatus
    /\ worker = [w \in Workers |-> IdleWorker]
    /\ runs = 0
    /\ budget = f
    /\ ev = <<"init", 0>>
    /\ hist = NoHistory
    /\ portal = IdlePortal
    /\ picker = IdlePicker
    /\ uri = NoUri
    /\ search = NoSearch
    /\ listing = NoListing
    /\ locks = IdleLocks
    /\ bus = IdleBus

\* sound storage
Init == InitWith(0)

\* the state Indexer::new leaves on a new data directory; f storage
\* failures lie ahead
ReadyWith(f) ==
    /\ opened = TRUE
    /\ schema = init_db("none").schema
    /\ db = EmptyDb
    /\ writer = 0
    /\ wdb = EmptyDb
    /\ status = restore_status(InitialStatus, get_indexed_count(EmptyDb, TRUE))
    /\ worker = [w \in Workers |-> IdleWorker]
    /\ runs = 0
    /\ budget = f
    /\ ev = <<"new", 1>>
    /\ hist = NoHistory
    /\ portal = IdlePortal
    /\ picker = IdlePicker
    /\ uri = NoUri
    /\ search = NoSearch
    /\ listing = NoListing
    /\ locks = IdleLocks
    /\ bus = IdleBus

\* Indexer::new at a moment no ingest thread of the process is alive (a
\* process start, or init_indexer at rest). ev[2]: 0 Err, 1 Ok, 2 Ok with
\* the COUNT(*) of restore_status failing
NewIndexer ==
    /\ AllIdle
    /\ \E openOk \in BOOLEAN, countOk \in BOOLEAN :
        /\ ~(openOk /\ countOk) => budget > 0
        /\ budget' = IF openOk /\ countOk THEN budget ELSE budget - 1
        /\ IF openOk /\ init_db(schema).ok
           THEN /\ opened' = TRUE
                /\ schema' = init_db(schema).schema
                /\ status' = restore_status(InitialStatus, get_indexed_count(db, countOk))
                /\ ev' = <<"new", IF countOk THEN 1 ELSE 2>>
           ELSE /\ UNCHANGED <<opened, schema, status>>
                /\ ev' = <<"new", 0>>
    /\ UNCHANGED <<portal, fvars, db, writer, wdb, worker, runs, hist>>

\* a clear_index that also resets the status to its initial value
ClearIndexResetsStatus ==
    /\ opened
    /\ \E outcome \in {0, 1, 2} :
        /\ outcome = 1 => writer = 0
        /\ outcome = 2 => writer = 0 /\ budget > 0
        /\ outcome = 0 => writer # 0 \/ budget > 0
        /\ budget' = IF outcome = 2 \/ (outcome = 0 /\ writer = 0) THEN budget - 1 ELSE budget
        /\ db' = IF outcome = 0 THEN db ELSE ClearedDb(db)
        /\ status' = IF outcome = 0 THEN status ELSE InitialStatus
        /\ ev' = <<"clear", outcome>>
        /\ hist' = IF outcome = 0 THEN hist
                   ELSE [hist EXCEPT !.prevRun = NoRun, !.lastRun = NoRun]
        /\ worker' = [w \in Workers |->
              IF outcome = 0 \/ worker[w].pc = "idle" THEN worker[w]
              ELSE [worker[w] EXCEPT !.solo = FALSE]]
    /\ UNCHANGED <<portal, fvars, opened, schema, writer, wdb, runs>>

\* clear_index: Ok (1), Err with nothing deleted (0: the connection failed,
\* or a worker's transaction holds the write lock), Err after the rows were
\* deleted (2: VACUUM failed)
ClearIndex ==
    /\ opened
    /\ \E outcome \in {0, 1, 2} :
        /\ outcome = 1 => writer = 0
        /\ outcome = 2 => writer = 0 /\ budget > 0
        /\ outcome = 0 => writer # 0 \/ budget > 0
        /\ budget' = IF outcome = 2 \/ (outcome = 0 /\ writer = 0) THEN budget - 1 ELSE budget
        /\ db' = IF outcome = 0 THEN db ELSE ClearedDb(db)
        /\ ev' = <<"clear", outcome>>
        /\ hist' = IF outcome = 0 THEN hist
                   ELSE [hist EXCEPT !.prevRun = NoRun, !.lastRun = NoRun]
        /\ worker' = [w \in Workers |->
              IF outcome = 0 \/ worker[w].pc = "idle" THEN worker[w]
              ELSE [worker[w] EXCEPT !.solo = FALSE]]
    /\ UNCHANGED <<portal, fvars, opened, schema, writer, wdb, status, runs>>

-----------------------------------------------------------------------------
(* index_directory and its ingest thread *)

\* the worker's view of the database: its open transaction's, if it has one
View(w) == IF writer = w THEN wdb ELSE db

\* the status the thread writes first, under the mutex
StartStatus(st, root) ==
    [st EXCEPT !.is_running = TRUE, !.current_path = root, !.indexed_count = 0]

\* a batch publication of i instead of i + 1
BatchStatusIndex(st, n, e) ==
    [st EXCEPT !.indexed_count = n - 1, !.elapsed_ms = e]

\* the status written at a batch boundary
BatchStatus(st, n, e) ==
    [st EXCEPT !.indexed_count = n, !.elapsed_ms = e]

\* a last publication that leaves current_path set
FinalStatusKeepsPath(st, n, e) ==
    [st EXCEPT !.is_running = FALSE, !.indexed_count = n, !.elapsed_ms = e]

\* a last publication that leaves indexed_count at the last batch boundary
FinalStatusKeepsCount(st, n, e) ==
    [st EXCEPT !.is_running = FALSE, !.current_path = None, !.elapsed_ms = e]

\* the status the thread writes last
FinalStatus(st, n, e) ==
    [is_running |-> FALSE, indexed_count |-> n, current_path |-> None, elapsed_ms |-> e]

\* where the loop goes after row i of n, batch boundary apart
AfterRow(i, n) == IF i = n THEN "commit" ELSE "insert"

\* index_directory(root, max_depth), the arguments drawn from Args: spawns
\* the thread and returns. solo: no other index operation has overlapped
\* the run
IndexDirectory(w, Args) ==
    /\ opened
    /\ worker[w].pc = "idle"
    /\ \A v \in Workers : v < w => worker[v].pc # "idle"
    /\ runs < MaxRuns
    /\ \E a \in Args :
        worker' = [v \in Workers |->
            IF v = w
            THEN [IdleWorker EXCEPT !.pc = "start", !.root = a[1], !.maxDepth = a[2],
                                    !.solo = AllIdle]
            ELSE [worker[v] EXCEPT !.solo = worker[v].pc = "idle"]]
    /\ runs' = runs + 1
    /\ hist' = [hist EXCEPT !.lastStarter = w, !.overlapped = ~AllIdle]
    /\ ev' = <<"index_directory", 0>>
    /\ UNCHANGED <<portal, fvars, opened, schema, db, writer, wdb, status, budget>>

\* let start = Instant::now(); the first publication
WStart(w) ==
    /\ worker[w].pc = "start"
    /\ status' = StartStatus(status, worker[w].root)
    /\ worker' = [worker EXCEPT ![w].pc = "crawl", ![w].el = 0]
    /\ ev' = <<"start", w>>
    /\ UNCHANGED <<portal, fvars, opened, schema, db, writer, wdb, runs, budget, hist>>

\* let entries = crawl_directory(&root, max_depth)
WCrawl(w) ==
    /\ worker[w].pc = "crawl"
    /\ \E es \in crawl_directory(worker[w].root, worker[w].maxDepth) :
        worker' = [worker EXCEPT ![w].pc = "open", ![w].entries = es]
    /\ ev' = <<"crawl", 0>>
    /\ UNCHANGED <<portal, fvars, opened, schema, db, writer, wdb, status, runs, budget, hist>>

\* Connection::open with the bulk PRAGMAs, conn.prepare(INSERT OR REPLACE
\* ...).ok() and BEGIN TRANSACTION. how: 1 both succeed, 2 the open fails,
\* 3 the prepare fails
WOpen(w) ==
    /\ worker[w].pc = "open"
    /\ \E how \in {1, 2, 3} :
        /\ how # 1 => budget > 0
        /\ budget' = IF how = 1 THEN budget ELSE budget - 1
        /\ worker' = [worker EXCEPT
              ![w].pc = IF how # 1 THEN "finish"
                        ELSE IF worker[w].entries = <<>> THEN "commit" ELSE "insert",
              ![w].i = IF how = 1 /\ worker[w].entries # <<>> THEN 1 ELSE 0,
              ![w].faulted = how # 1,
              ![w].txn = how = 1]
        /\ ev' = <<"open", how>>
    /\ UNCHANGED <<portal, fvars, opened, schema, db, writer, wdb, status, runs, hist>>

\* a failed execute that ends the loop and the thread's database work
AfterFailedInsertBreaks(i, n) == "finish"

\* let _ = prepared_stmt.execute(..): the Err is dropped and the loop goes
\* on as after an Ok
AfterFailedInsert(i, n) == IF i % BATCH_SIZE = 0 THEN "batch" ELSE AfterRow(i, n)

\* prepared_stmt.execute(entry), result dropped. The first write of a
\* transaction takes the write lock; while another connection holds it the
\* insert fails with SQLITE_BUSY. On a storage failure (SQLITE_FULL,
\* SQLITE_IOERR, SQLITE_NOMEM) SQLite undoes the statement, or rolls the
\* whole transaction back and leaves the connection in autocommit mode,
\* where each later insert is its own transaction
WInsert(w) ==
    /\ worker[w].pc = "insert"
    /\ LET i    == worker[w].i
           n    == Len(worker[w].entries)
           next == IF i % BATCH_SIZE = 0 THEN "batch" ELSE AfterRow(i, n)
           ni   == IF next = "insert" THEN i + 1 ELSE i
           nxf  == AfterFailedInsert(i, n)
           nif  == IF nxf = "insert" THEN i + 1 ELSE i
       IN \/ /\ worker[w].txn
             /\ writer \in {0, w}
             /\ wdb' = InsertOrReplace(View(w), worker[w].entries[i])
             /\ writer' = w
             /\ worker' = [worker EXCEPT ![w].pc = next, ![w].i = ni,
                                         ![w].done = @ \cup {i},
                                         ![w].pending = @ \cup {i}]
             /\ UNCHANGED <<budget, db>>
             /\ ev' = <<"insert", 0>>
          \/ /\ ~worker[w].txn
             /\ writer = 0
             /\ db' = InsertOrReplace(db, worker[w].entries[i])
             /\ worker' = [worker EXCEPT ![w].pc = next, ![w].i = ni,
                                         ![w].done = @ \cup {i}]
             /\ UNCHANGED <<budget, writer, wdb>>
             /\ ev' = <<"insert", 0>>
          \/ /\ \/ writer \notin {0, w} /\ UNCHANGED budget
                \/ writer \in {0, w} /\ budget > 0 /\ budget' = budget - 1
             /\ worker' = [worker EXCEPT ![w].pc = nxf, ![w].i = nif,
                                         ![w].faulted = TRUE,
                                         ![w].failed = @ \cup {i}]
             /\ UNCHANGED <<writer, wdb, db>>
             /\ ev' = <<"insert_failed", 0>>
          \/ /\ worker[w].txn
             /\ writer \in {0, w}
             /\ budget > 0
             /\ budget' = budget - 1
             /\ writer' = 0
             /\ worker' = [worker EXCEPT ![w].pc = nxf, ![w].i = nif,
                                         ![w].faulted = TRUE,
                                         ![w].failed = @ \cup {i},
                                         ![w].txn = FALSE,
                                         ![w].undone = @ \cup worker[w].pending,
                                         ![w].pending = {}]
             /\ UNCHANGED <<wdb, db>>
             /\ ev' = <<"insert_failed", 1>>
    /\ UNCHANGED <<portal, fvars, opened, schema, status, runs, hist>>

\* COMMIT; BEGIN TRANSACTION; at a batch boundary, result dropped. When
\* the COMMIT fails the BEGIN is not run: a failed COMMIT leaves the
\* transaction open, and without a transaction the COMMIT fails and the
\* connection stays in autocommit mode
WBatchCommit(w) ==
    /\ worker[w].pc = "batch"
    /\ \/ /\ worker[w].txn
          /\ db' = View(w)
          /\ writer' = IF writer = w THEN 0 ELSE writer
          /\ worker' = [worker EXCEPT ![w].pc = "publish", ![w].pending = {}]
          /\ UNCHANGED budget
       \/ /\ worker[w].txn
          /\ budget > 0
          /\ budget' = budget - 1
          /\ worker' = [worker EXCEPT ![w].pc = "publish", ![w].faulted = TRUE,
                                      ![w].commitFault = TRUE]
          /\ UNCHANGED <<db, writer>>
       \/ /\ ~worker[w].txn
          /\ worker' = [worker EXCEPT ![w].pc = "publish"]
          /\ UNCHANGED <<db, writer, budget>>
    /\ ev' = <<"batch_commit", 0>>
    /\ UNCHANGED <<portal, fvars, opened, schema, wdb, status, runs, hist>>

\* s.indexed_count = i + 1; s.elapsed_ms = start.elapsed()
WBatchPublish(w) ==
    /\ worker[w].pc = "publish"
    /\ \E e \in worker[w].el..MaxElapsed :
        /\ status' = BatchStatus(status, worker[w].i, e)
        /\ worker' = [worker EXCEPT
              ![w].pc = AfterRow(worker[w].i, Len(worker[w].entries)),
              ![w].i = IF worker[w].i = Len(worker[w].entries)
                       THEN worker[w].i ELSE worker[w].i + 1,
              ![w].el = e]
    /\ ev' = <<"batch_publish", w>>
    /\ UNCHANGED <<portal, fvars, opened, schema, db, writer, wdb, runs, budget, hist>>

\* the final COMMIT, the restoring PRAGMAs, and the connection's drop, which
\* rolls back what a failed COMMIT left open
WFinalCommit(w) ==
    /\ worker[w].pc = "commit"
    /\ \/ /\ worker[w].txn
          /\ db' = View(w)
          /\ UNCHANGED budget
          /\ worker' = [worker EXCEPT ![w].pc = "finish", ![w].pending = {},
                                      ![w].txn = FALSE]
       \/ /\ worker[w].txn
          /\ budget > 0
          /\ budget' = budget - 1
          /\ worker' = [worker EXCEPT ![w].pc = "finish", ![w].faulted = TRUE,
                                      ![w].commitFault = TRUE, ![w].txn = FALSE,
                                      ![w].undone = @ \cup worker[w].pending,
                                      ![w].pending = {}]
          /\ UNCHANGED db
       \/ /\ ~worker[w].txn
          /\ worker' = [worker EXCEPT ![w].pc = "finish"]
          /\ UNCHANGED <<db, budget>>
    /\ writer' = IF writer = w THEN 0 ELSE writer
    /\ ev' = <<"final_commit", 0>>
    /\ UNCHANGED <<portal, fvars, opened, schema, wdb, status, runs, hist>>

\* the last publication; the thread ends
WFinish(w) ==
    /\ worker[w].pc = "finish"
    /\ \E e \in worker[w].el..MaxElapsed :
        status' = FinalStatus(status, Len(worker[w].entries), e)
    /\ worker' = [worker EXCEPT ![w] = IdleWorker]
    /\ hist' = [hist EXCEPT
          !.lastFinisher = w,
          !.crawled[w] = Len(worker[w].entries),
          !.prevRun = IF worker[w].solo /\ ~worker[w].faulted THEN hist.lastRun ELSE NoRun,
          !.lastRun = IF worker[w].solo /\ ~worker[w].faulted
                      THEN [root |-> worker[w].root, maxDepth |-> worker[w].maxDepth,
                            count |-> get_indexed_count(db, TRUE)]
                      ELSE NoRun]
    /\ ev' = <<"finish", w>>
    /\ UNCHANGED <<portal, fvars, opened, schema, db, writer, wdb, runs, budget>>

WorkerStep(w) ==
    \/ WStart(w)
    \/ WCrawl(w)
    \/ WOpen(w)
    \/ WInsert(w)
    \/ WBatchCommit(w)
    \/ WBatchPublish(w)
    \/ WFinalCommit(w)
    \/ WFinish(w)

\* one ingest at a time: index_directory is called when no thread is alive
Next ==
    \/ NewIndexer
    \/ ClearIndex
    \/ \E w \in Workers : AllIdle /\ IndexDirectory(w, CrawlArgs)
    \/ \E w \in Workers : WorkerStep(w)

Spec == Init /\ [][Next]_vars

\* ingest over storage that fails up to MaxFaults times
FaultNext ==
    \/ \E w \in Workers : AllIdle /\ IndexDirectory(w, FaultArgs)
    \/ \E w \in Workers : WorkerStep(w)

\* overlapping calls: index_directory is called whenever a slot is free
OverlapNext ==
    \/ \E w \in Workers : IndexDirectory(w, OverlapArgs)
    \/ \E w \in Workers : WorkerStep(w)

OverlapSpec == ReadyWith(0) /\ [][OverlapNext]_vars

\* threads are scheduled: a worker that can take a step eventually takes one
LiveSpec ==
    /\ ReadyWith(MaxFaults)
    /\ [][FaultNext]_vars
    /\ \A w \in Workers : WF_vars(WorkerStep(w))

-----------------------------------------------------------------------------
(* Properties of the index and its ingest *)

SameArgs(a, b) == a.root = b.root /\ a.maxDepth = b.maxDepth

RowsWithPath(p) == {r \in db.files : r.path = p}

\* C1: a run of index_directory that follows a run on the same tree, both
\* undisturbed by any other index operation, leaves get_indexed_count() at
\* the value the first run left, and the table holds exactly one row for
\* each crawled path.
C1_RerunKeepsCount ==
    /\ (/\ hist.lastRun # NoRun
        /\ hist.prevRun # NoRun
        /\ SameArgs(hist.lastRun, hist.prevRun))
       => hist.lastRun.count = hist.prevRun.count
    /\ (ev[1] = "finish" /\ hist.lastRun # NoRun)
       => \A p \in Reached(hist.lastRun.root, hist.lastRun.maxDepth) :
              Cardinality(RowsWithPath(p)) = 1

C1_Witness ==
    /\ ev[1] = "finish"
    /\ hist.lastRun # NoRun
    /\ hist.prevRun # NoRun
    /\ SameArgs(hist.lastRun, hist.prevRun)
    /\ hist.lastRun.count = Cardinality(Reached(P_d, -1))

\* C2: right after clear_index returns Ok, get_indexed_count() is 0 and
\* search_fts returns no row for any query and limit.
C2_ClearEmpties ==
    ev = <<"clear", 1>> =>
        /\ \A ok \in BOOLEAN : get_indexed_count(db, ok) = 0
        /\ \A q \in Queries, l \in Limits, ok \in BOOLEAN :
              search_fts(db, q, l, ok) = {{}}

C2_Witness ==
    /\ ev = <<"clear", 1>>
    /\ runs = MaxRuns
    /\ db.fts # EmptyBag

IndexedEntries == {FtsEntry(r) : r \in db.files}

\* C3: the FTS index holds an entry (rowid, name, path) exactly when files
\* holds the row with that id, name and path, once each.
C3_FtsCoherent ==
    /\ BagToSet(db.fts) = IndexedEntries
    /\ \A e \in BagToSet(db.fts) : CopiesIn(e, db.fts) = 1

\* C4: the first publication of a worker sets all four fields:
\* is_running=true, current_path=root, indexed_count=0, elapsed_ms=0.
C4_StartSetsAllFields ==
    ev[1] = "start" =>
        status = [is_running |-> TRUE, indexed_count |-> 0,
                  current_path |-> worker[ev[2]].root, elapsed_ms |-> 0]

\* C5: every started worker publishes the final status {is_running=false,
\* indexed_count=number of crawled entries, current_path=absent}, whatever
\* fails on the way (the open, the prepare, row inserts, commits).
C5_FinalStatusPublished ==
    \A w \in Workers :
        (worker[w].pc = "start") ~>
            (/\ ev = <<"finish", w>>
             /\ status.is_running = FALSE
             /\ status.indexed_count = hist.crawled[w]
             /\ status.current_path = None)

C5_Witness ==
    /\ ev[1] = "finish"
    /\ budget < MaxFaults
    /\ status.is_running = FALSE
    /\ status.indexed_count = hist.crawled[ev[2]]
    /\ status.indexed_count > get_indexed_count(db, TRUE)
    /\ get_indexed_count(db, TRUE) > 0

Running(w) == worker[w].pc \notin {"idle", "start"}

CrawlSize(w) == Cardinality(Reached(worker[w].root, worker[w].maxDepth))

C6_Observable ==
    \A w \in Workers : (Running(w) /\ worker[w].solo) =>
        /\ status.indexed_count % BATCH_SIZE = 0
        /\ status.indexed_count <= CrawlSize(w)
        /\ ev = <<"batch_publish", w>> =>
              /\ status.indexed_count > 0
              /\ \A j \in 1..status.indexed_count :
                    RowsWithPath(worker[w].entries[j].path) # {}

C6_Monotone ==
    \A w \in Workers : (Running(w) /\ worker[w].solo /\ worker'[w].solo) =>
        status'.indexed_count >= status.indexed_count

\* C6: while a single worker runs, between its first and its last
\* publication status.indexed_count is 0 or a multiple of the batch size not
\* above the number of crawled entries, it never decreases (the last
\* publication included), and when k*B is published the first k*B entries
\* are committed rows.
C6_BatchProgress == []C6_Observable /\ [][C6_Monotone]_vars

C6_Witness ==
    /\ ev = <<"batch_publish", 1>>
    /\ worker[1].solo
    /\ status.indexed_count = 2 * BATCH_SIZE

BothFinished ==
    /\ AllIdle
    /\ hist.overlapped
    /\ \A w \in Workers : hist.crawled[w] >= 0

\* C7 as stated: once two overlapping calls have both finished,
\* status.indexed_count is the number of entries crawled by the call that
\* started last.
C7_LatestStarter ==
    BothFinished => status.indexed_count = hist.crawled[hist.lastStarter]

\* C7 amended: once two overlapping calls have both finished,
\* status.indexed_count is the number of entries crawled by the call whose
\* worker finished last.
C7_LastFinisher ==
    BothFinished => status.indexed_count = hist.crawled[hist.lastFinisher]

C7_Witness ==
    /\ BothFinished
    /\ hist.lastFinisher # hist.lastStarter
    /\ hist.crawled[hist.lastFinisher] # hist.crawled[hist.lastStarter]

C8_Seeded ==
    /\ ev[1] = "new" => ev[2] = 1
    /\ ev = <<"new", 1>> =>
          status = [is_running |-> FALSE, indexed_count |-> get_indexed_count(db, TRUE),
                    current_path |-> None, elapsed_ms |-> 0]

\* C8: Indexer::new succeeds every time it is applied to the data
\* directory, leaves status {is_running=false, indexed_count=k,
\* current_path=absent, elapsed_ms=0} with k the number of rows, and leaves
\* the rows and the FTS index as they were.
C8_OpenKeepsRows ==
    []C8_Seeded /\ [][ev' = <<"new", 1>> => db' = db]_vars

C8_Witness ==
    /\ ev = <<"new", 1>>
    /\ runs > 0
    /\ status.indexed_count >= 2


-----------------------------------------------------------------------------
(* The portal alone *)

PortalNext ==
    \/ PortalCall
    \/ SpawnFails
    \/ PickerSelect
    \/ PickerCancel
    \/ PickerClosed
    \/ PickerDies
    \/ PortalReply
    \/ PortalDone

PortalSpec == Init /\ [][PortalNext]_vars

\* some line of the output begins with the selection prefix
HasSelectedLine(out) ==
    \E k \in 0..(Len(out) - Len(SelectedPrefix)) :
        /\ k = 0 \/ out[k] = LF
        /\ SubSeq(out, k + 1, k + Len(SelectedPrefix)) = SelectedPrefix

PickerFailed ==
    \/ ~portal.child.spawned
    \/ portal.child.exit # 0
    \/ ~HasSelectedLine(portal.child.stdout)

\* C9: every reply of OpenFile, SaveFile and SaveFiles has code 0 or 1; it is
\* (1, empty map) when the picker could not be spawned, exited non-zero (even
\* with selection lines on its stdout) or printed no selection line, and
\* otherwise it is code 0 with a non-empty "uris" list.
C9_ReplyCodes ==
    portal.pc = "replied" =>
        /\ portal.reply.code \in {0, 1}
        /\ PickerFailed =>
             /\ portal.reply.code = 1
             /\ DOMAIN portal.reply.results = {}
        /\ ~PickerFailed =>
             /\ portal.reply.code = 0
             /\ DOMAIN portal.reply.results = {"uris"}
             /\ Len(portal.reply.results.uris) > 0

C9_Witness ==
    /\ portal.pc = "replied"
    /\ portal.how = "dies"
    /\ HasSelectedLine(portal.child.stdout)
    /\ portal.reply.code = 1

\* C10: whatever list of paths select_files was given, launch_picker returns
\* exactly that list, in order; after cancel_picker it returns the empty list.
C10_FaithfulTransport ==
    portal.pc \in {"ended", "replied"} =>
        /\ portal.how = "select" => launch_picker(portal.child) = portal.sel
        /\ portal.how = "cancel" => launch_picker(portal.child) = <<>>


HasArg(a, f) == \E i \in DOMAIN a : a[i] = f

\* the value that follows the first occurrence of flag f
ArgAfter(a, f) == a[FirstIndex(a, f) + 1]

Launching(m) == portal.pc = "launching" /\ portal.method = m

IsTrue(v) == v.t = "bool" /\ v.v

\* C11: OpenFile's argv is, in this order, the mode flag (--picker-dirs when
\* directory is true, else --picker), --multiple iff multiple is true,
\* --types <list> iff an extension was accepted, --start-dir <folder> iff
\* current_folder decodes to a non-empty string; no argument in flag position
\* is --current-name or --picker-save (a folder spelled like a flag is passed
\* as the value of --start-dir).
C11_OpenFileArgv ==
    Launching("OpenFile") =>
        LET o      == portal.options
            a      == portal.args
            mode   == IF IsTrue(o.directory) THEN FlagPickerDirs ELSE FlagPicker
            exts   == Extensions(parse_filters(o))
            folder == extract_current_folder(o)
            M      == IF IsTrue(o.multiple) THEN 1 ELSE 0
            T      == IF exts # <<>> THEN 2 ELSE 0
            S      == IF folder # None THEN 2 ELSE 0
        IN /\ Len(a) = 1 + M + T + S
           /\ a[1] = mode
           /\ M = 1 => a[2] = FlagMultiple
           /\ T = 2 => a[2 + M] = FlagTypes /\ a[3 + M] = Join(exts, ",")
           /\ S = 2 => a[2 + M + T] = FlagStartDir /\ a[3 + M + T] = folder[1]
           /\ \A i \in DOMAIN a :
                 a[i] \in {FlagCurrentName, FlagPickerSave}
                    => i > 1 /\ a[i - 1] = FlagStartDir

C11_Witness ==
    /\ Launching("OpenFile")
    /\ Len(portal.args) = 6
    /\ portal.args[1] = FlagPickerDirs
    /\ portal.options.current_name # Absent

RECURSIVE AllPatterns(_)
\* every (match_type, glob) pair of the filters option, in order
AllPatterns(items) ==
    IF items = <<>> THEN <<>>
    ELSE (IF Len(Head(items)) >= 2 THEN Head(items)[2] ELSE <<>>)
         \o AllPatterns(Tail(items))

\* match_type 0 and a glob shaped *.ext, that is, one that begins with "*."
AcceptedPattern(pat) == pat[1] = 0 /\ IsPrefix(StarDot, pat[2])

AcceptedExtensions(filters) ==
    IF filters.t # "array" THEN <<>>
    ELSE LET acc == SelectSeq(AllPatterns(filters.items), AcceptedPattern)
         IN [i \in DOMAIN acc |-> SubSeq(acc[i][2], 3, Len(acc[i][2]))]

ImagesFilter == Array(<< <<"Images", <<<<0, Png>>, <<0, Jpg>>>>>> >>)

\* C12: only patterns with match_type 0 whose glob begins with "*." are
\* accepted; each contributes its glob without the "*.", every other pattern
\* contributes nothing, and the value of --types is the accepted extensions of
\* all filters, in order, joined by commas; --types is passed iff there is
\* one. For [(Images, [(0,*.png),(0,*.jpg)])] the argv holds --types png,jpg.
C12_FilterTranslation ==
    (Launching("OpenFile") \/ Launching("SaveFile")) =>
        LET exts == AcceptedExtensions(portal.options.filters)
        IN /\ HasArg(portal.args, FlagTypes) <=> exts # <<>>
           /\ exts # <<>> => ArgAfter(portal.args, FlagTypes) = Join(exts, ",")
           /\ portal.options.filters = ImagesFilter
                 => ArgAfter(portal.args, FlagTypes) = <<"p", "n", "g", ",", "j", "p", "g">>

C12_Witness ==
    /\ Launching("OpenFile")
    /\ HasArg(portal.args, FlagTypes)
    /\ ArgAfter(portal.args, FlagTypes) = <<"t", "x", "t", ",", "p", "n", "g">>

\* C13: SaveFile's argv begins with --picker-save and holds none of
\* --multiple, --picker, --picker-dirs whatever multiple and directory say;
\* it holds --current-name N iff current_name is the non-empty string N.
C13_SaveFileArgv ==
    Launching("SaveFile") =>
        LET a  == portal.args
            cn == portal.options.current_name
        IN /\ a[1] = FlagPickerSave
           /\ \A i \in DOMAIN a : a[i] \notin {FlagMultiple, FlagPicker, FlagPickerDirs}
           /\ IF cn.t = "s" /\ cn.s # <<>>
              THEN /\ Len(a) >= 3
                   /\ a[Len(a) - 1] = FlagCurrentName
                   /\ a[Len(a)] = cn.s
              ELSE ~HasArg(a, FlagCurrentName)

C13_Witness ==
    /\ Launching("SaveFile")
    /\ IsTrue(portal.options.multiple)
    /\ IsTrue(portal.options.directory)
    /\ HasArg(portal.args, FlagCurrentName)

\* C14: SaveFiles launches the picker with --picker-dirs and neither
\* --multiple nor --types; when the picker yields no selection the reply is
\* (1, {}); otherwise, with D the first path yielded and f1..fn the
\* filenames, the reply has code 0 and holds the URI of D/fi for each i in
\* order when n >= 1, and the URI of D alone when n = 0.
C14_SaveFiles ==
    /\ Launching("SaveFiles") =>
          /\ portal.args[1] = FlagPickerDirs
          /\ ~HasArg(portal.args, FlagMultiple)
          /\ ~HasArg(portal.args, FlagTypes)
    /\ (portal.pc = "replied" /\ portal.method = "SaveFiles") =>
          LET selected == launch_picker(portal.child)
              names    == portal.filenames
              r        == portal.reply
          IN /\ portal.how \in {"cancel", "closed", "spawn_error", "dies"}
                   => selected = <<>>
             /\ selected = <<>> => r.code = 1 /\ DOMAIN r.results = {}
             /\ selected # <<>> =>
                   /\ r.code = 0
                   /\ DOMAIN r.results = {"uris"}
                   /\ Len(r.results.uris) = IF names = <<>> THEN 1 ELSE Len(names)
                   /\ names = <<>> => r.results.uris[1] = encode_file_uri(selected[1])
                   /\ \A i \in DOMAIN names :
                         r.results.uris[i] =
                             encode_file_uri(selected[1] \o <<"/">> \o names[i])

C14_Witness ==
    /\ portal.pc = "replied"
    /\ portal.method = "SaveFiles"
    /\ Len(portal.filenames) = 2
    /\ portal.reply.code = 0
    /\ Len(portal.reply.results.uris) = 2

EmptyValue(v) ==
    \/ v.t = "s" /\ v.s = <<>>
    \/ v.t = "ay" /\ v.b # <<>> /\ v.b[1] = 0

\* C15: an empty current_folder or current_name (an empty string, or a byte
\* array that begins with NUL) gives no --start-dir / --current-name, and an
\* empty entry of files is dropped: no filename is empty and no URI is built
\* from an empty filename.
C15_EmptyIsAbsent ==
    /\ portal.pc = "launching" =>
          /\ EmptyValue(portal.options.current_folder)
                => ~HasArg(portal.args, FlagStartDir)
          /\ EmptyValue(portal.options.current_name)
                => ~HasArg(portal.args, FlagCurrentName)
          /\ \A i \in DOMAIN portal.filenames : portal.filenames[i] # <<>>
    /\ (portal.pc = "replied" /\ portal.method = "SaveFiles"
        /\ portal.reply.code = 0) =>
          \A i \in DOMAIN portal.reply.results.uris :
              portal.reply.results.uris[i] #
                  encode_file_uri(launch_picker(portal.child)[1] \o <<"/">>)


-----------------------------------------------------------------------------
(* The picker's command line alone *)

ArgvNext ==
    \/ PickerRun
    \/ PickerEnd

ArgvSpec == Init /\ [][ArgvNext]_vars

RECURSIVE IsFlagPos(_, _)
\* the argument at index i is read as a flag, not as the value of the value
\* flag before it
IsFlagPos(args, i) ==
    \/ i = 2
    \/ i > 2 /\ ~(IsFlagPos(args, i - 1) /\ args[i - 1] \in ValueFlags)

FlagsAt(args, F) ==
    {i \in 2..Len(args) : IsFlagPos(args, i) /\ args[i] \in F}

ModeOfFlag(f) ==
    CASE f = FlagPicker     -> "Files"
      [] f = FlagPickerDirs -> "Directories"
      [] f = FlagPickerBoth -> "Both"
      [] f = FlagPickerSave -> "Save"

\* the value given with the last occurrence of value flag f that has one
ValueOf(args, f) ==
    LET occ == {i \in FlagsAt(args, {f}) : i < Len(args)}
    IN IF occ = {} THEN None ELSE Some(args[Max(occ) + 1])

FieldOf(cfg, f) ==
    CASE f = FlagTypes       -> cfg.file_types
      [] f = FlagStartDir    -> cfg.start_dir
      [] f = FlagCurrentName -> cfg.current_name

\* C16: the parsed PickerConfig has mode Disabled when no mode flag is
\* present and otherwise the mode of the last mode flag; allow_multiple is
\* true iff --multiple occurs as a flag; --types V gives file_types = V split
\* on commas, --start-dir P gives start_dir = P, --current-name N gives
\* current_name = N; a value flag that is the last argument sets nothing;
\* every other argument is ignored.
C16_ArgvParsing ==
    picker.pc = "running" =>
        LET args  == picker.argv
            cfg   == picker.config
            modes == FlagsAt(args, ModeFlags)
            types == ValueOf(args, FlagTypes)
        IN /\ cfg.mode = IF modes = {} THEN "Disabled"
                         ELSE ModeOfFlag(args[Max(modes)])
           /\ cfg.allow_multiple <=> FlagsAt(args, {FlagMultiple}) # {}
           /\ cfg.start_dir = ValueOf(args, FlagStartDir)
           /\ cfg.current_name = ValueOf(args, FlagCurrentName)
           /\ (types = None) <=> (cfg.file_types = None)
           /\ types # None =>
                 /\ Join(cfg.file_types[1], ",") = types[1]
                 /\ \A k \in DOMAIN cfg.file_types[1] :
                       ~HasArg(cfg.file_types[1][k], ",")
           /\ \A f \in ValueFlags :
                 (args[Len(args)] = f /\ FlagsAt(args, {f}) = {Len(args)})
                    => FieldOf(cfg, f) = None

C16_Witness ==
    /\ picker.pc = "running"
    /\ picker.argv = <<Prog, FlagStartDir, FlagMultiple, FlagTypes>>
    /\ picker.config.start_dir = Some(FlagMultiple)
    /\ ~picker.config.allow_multiple
    /\ picker.config.file_types = None


-----------------------------------------------------------------------------
(* encode_file_uri alone *)

UriNext ==
    \/ UriEncode
    \/ UriDone

UriSpec == Init /\ [][UriNext]_vars

FileScheme == <<"f", "i", "l", "e", ":", "/", "/">>

\* the part of the URI after file://
AfterScheme(u) == SubSeq(u, Len(FileScheme) + 1, Len(u))

\* what a character of a path is to become in a URI segment
ExpectedChar(c) ==
    CASE c = "%"  -> <<"%", "2", "5">>
      [] c = " "  -> <<"%", "2", "0">>
      [] c = UUml -> <<"%", "C", "3", "%", "B", "C">>
      [] OTHER    -> <<c>>

RECURSIVE ExpectedSegment(_)
ExpectedSegment(seg) ==
    IF seg = <<>> THEN <<>>
    ELSE ExpectedChar(Head(seg)) \o ExpectedSegment(Tail(seg))

\* C17: encode_file_uri(p) is file:// followed by p's segments joined by "/",
\* with A-Z a-z 0-9 - _ . ~ copied and every other byte written %XX in
\* upper-case hex; the "/" separators keep their number and place;
\* /tmp/a b/<u-umlaut>nicode.txt becomes file:///tmp/a%20b/%C3%BCnicode.txt.
C17_PerSegmentEncoding ==
    uri.pc = "encoded" =>
        LET segs == SplitOn(uri.path, "/")
            encs == SplitOn(AfterScheme(uri.encoded), "/")
        IN /\ IsPrefix(FileScheme, uri.encoded)
           /\ Len(encs) = Len(segs)
           /\ \A k \in DOMAIN segs : encs[k] = ExpectedSegment(segs[k])
           /\ uri.path = S6Path =>
                 uri.encoded = <<"f", "i", "l", "e", ":", "/", "/", "/", "t", "m", "p", "/", "a", "%", "2", "0", "b", "/", "%", "C", "3", "%", "B", "C", "n", "i", "c", "o", "d", "e", ".", "t", "x", "t">>

C17_Witness ==
    /\ uri.pc = "encoded"
    /\ uri.path = S6Path
    /\ Len(uri.encoded) = 34

HexValue(h) == (CHOOSE i \in DOMAIN HexDigits : HexDigits[i] = h) - 1

IsHex(h) == \E i \in DOMAIN HexDigits : HexDigits[i] = h

RECURSIVE PercentDecode(_)
\* percent-decoding to bytes; <<-1>> marks a malformed escape
PercentDecode(str) ==
    IF str = <<>> THEN <<>>
    ELSE IF Head(str) = "%"
         THEN IF Len(str) >= 3 /\ IsHex(str[2]) /\ IsHex(str[3])
              THEN <<16 * HexValue(str[2]) + HexValue(str[3])>>
                   \o PercentDecode(SubSeq(str, 4, Len(str)))
              ELSE <<-1>>
         ELSE <<ByteOf(Head(str))>> \o PercentDecode(Tail(str))

\* C18: percent-decoding the part of encode_file_uri(p) after file:// gives
\* the bytes of p, and no other path of the model has the same URI.
C18_RoundTrip ==
    uri.pc = "encoded" =>
        /\ PercentDecode(AfterScheme(uri.encoded)) = Bytes(uri.path)
        /\ \A q \in PathsUpTo(2) :
              encode_file_uri(q) = uri.encoded => q = uri.path

C18_Witness ==
    /\ uri.pc = "encoded"
    /\ uri.path = <<"/", "%", "2", "0">>
    /\ uri.encoded # encode_file_uri(<<"/", " ">>)


-----------------------------------------------------------------------------
(* Searches on the index of the second tree *)

\* search_fts is called; the rows it ran on are kept with the result
SearchFts ==
    /\ opened
    /\ search.op = "none"
    /\ \E q \in SearchQueries, l \in Limits, ok \in BOOLEAN :
         \E R \in search_fts(db, q, l, ok) :
           search' = [NoSearch EXCEPT !.op = "fts", !.query = q, !.limit = l,
                        !.ok = ok, !.init = TRUE, !.files = db.files, !.fts = db.fts,
                        !.match = fts_query(q), !.via = "fts", !.results = R]
    /\ UNCHANGED <<ivars, portal, picker, uri, listing, locks, bus>>

\* search_fuzzy is called; the rows it ran on are kept with the result
SearchFuzzy ==
    /\ opened
    /\ search.op = "none"
    /\ \E q \in SearchQueries, l \in Limits, ok \in BOOLEAN :
         \E R \in search_fuzzy(db, q, l, ok) :
           search' = [NoSearch EXCEPT !.op = "fuzzy", !.query = q, !.limit = l,
                        !.ok = ok, !.init = TRUE, !.files = db.files, !.fts = db.fts,
                        !.via = "fuzzy", !.results = R]
    /\ UNCHANGED <<ivars, portal, picker, uri, listing, locks, bus>>

\* the command search_files, with or without an indexer in the AppState
SearchFiles ==
    /\ search.op = "none"
    /\ \E q \in SearchQueries, l \in OptLimits, ok1 \in BOOLEAN, ok2 \in BOOLEAN :
         \E r \in search_files(opened, db, q, l, ok1, ok2) :
           search' = [NoSearch EXCEPT !.op = "files", !.query = q,
                        !.limit = IF l = None THEN 0 ELSE l[1],
                        !.ok = ok1, !.ok2 = ok2, !.init = opened, !.files = db.files, !.fts = db.fts,
                        !.via = r.via, !.results = r.results]
    /\ UNCHANGED <<ivars, portal, picker, uri, listing, locks, bus>>

\* the command get_indexed_count: 0 without an indexer
GetIndexedCount ==
    /\ search.op = "none"
    /\ \E ok \in BOOLEAN :
         search' = [NoSearch EXCEPT !.op = "count", !.ok = ok, !.init = opened,
                      !.files = db.files, !.fts = db.fts,
                      !.count = IF opened THEN get_indexed_count(db, ok) ELSE 0]
    /\ UNCHANGED <<ivars, portal, picker, uri, listing, locks, bus>>

\* the caller has its answer
SearchDone ==
    /\ search.op # "none"
    /\ search' = NoSearch
    /\ UNCHANGED <<ivars, portal, picker, uri, listing, locks, bus>>

SearchNext ==
    \/ \E w \in Workers : AllIdle /\ IndexDirectory(w, SearchArgs)
    \/ \E w \in Workers : WorkerStep(w)
    \/ SearchFts
    \/ SearchFuzzy
    \/ SearchFiles
    \/ GetIndexedCount
    \/ SearchDone

\* the application with an indexer, and the application whose Indexer::new
\* failed at startup
SearchSpec == (ReadyWith(0) \/ InitWith(0)) /\ [][SearchNext]_vars

CfgIndexed == \E f \in search.files : f.name = CfgName

\* C19: with the row my_configuration.yaml indexed, search_fts("cofig", L)
\* returns nothing and search_fuzzy("cofig", L) with L >= 1 returns that row
\* with a score above 0.
C19_FuzzyFallback ==
    (search.query = Cofig /\ CfgIndexed) =>
        /\ search.op = "fts" => search.results = {}
        /\ (search.op = "fuzzy" /\ search.limit >= 1) =>
              \E i \in DOMAIN search.results :
                  /\ search.results[i].name = CfgName
                  /\ search.results[i].score > 0

\* C20: for every query q with sanitised form q' and every limit L,
\* search_fts(q, L) returns at most L rows, each with score 0, each with a
\* name or path that contains q'.
C20_FtsResults ==
    \A q \in Queries, l \in Limits, ok \in BOOLEAN :
        \A R \in search_fts(db, q, l, ok) :
            /\ Cardinality(R) <= l
            /\ \A r \in R :
                  /\ r.score = 0
                  /\ \/ Contains(r.name, escaped_query(q))
                     \/ Contains(r.path, escaped_query(q))


\* the operator characters the sanitiser is said to replace
ClaimedOperators == {"\"", "*", "+", "-", "(", ")", ":", "^"}

\* the text between the quotes of the MATCH expression
Sanitized == SubSeq(search.match, 2, Len(search.match) - 2)

\* C21: search_fts replaces each of the characters " * + - ( ) : ^ of the
\* query by one space and leaves every other character in place, matches with
\* the expression quote, sanitised text, quote, star, and the sanitised text
\* holds no double quote; foo*bar(x) is matched as "foo bar x "*
C21_Sanitize ==
    search.op = "fts" =>
        /\ Len(search.match) = Len(search.query) + 3
        /\ search.match[1] = "\""
        /\ search.match[Len(search.match) - 1] = "\""
        /\ search.match[Len(search.match)] = "*"
        /\ \A i \in DOMAIN search.query :
              Sanitized[i] = IF search.query[i] \in ClaimedOperators THEN " "
                             ELSE search.query[i]
        /\ \A i \in DOMAIN Sanitized : Sanitized[i] # "\""
        /\ search.query = FooBar =>
              search.match = <<"\"", "f", "o", "o", " ", "b", "a", "r", " ", "x", " ", "\"", "*">>

C21_Witness == search.op = "fts" /\ search.query = FooBar

\* C22: search_fts, search_fuzzy and get_indexed_count return a value for
\* every query and every storage state: rows of the files table or a count,
\* and the empty sequence (count 0) when the connection, the statement or
\* the query fails
C22_NeverFails ==
    /\ search.op = "fts" =>
          /\ \A r \in search.results : \E f \in search.files : r = SearchResult(f, 0)
          /\ ~search.ok => search.results = {}
    /\ search.op = "fuzzy" =>
          /\ \A i \in DOMAIN search.results :
                \E f \in search.files, sc \in Scores :
                    search.results[i] = SearchResult(f, sc)
          /\ ~search.ok => search.results = <<>>
    /\ search.op = "count" =>
          /\ search.count \in 0..Cardinality(search.files)
          /\ ~search.ok => search.count = 0

C22_Witness ==
    /\ search.op = "fts"
    /\ ~search.ok
    /\ search.query = <<"c", "o", "n", "f", "i", "g">>
    /\ CfgIndexed

\* C23: search_fuzzy(q, L) returns at most L results, no result has a lower
\* score than the one after it, and every result is a row whose name or path
\* the fuzzy matcher matches
C23_FuzzyOrder ==
    search.op = "fuzzy" =>
        /\ Len(search.results) <= search.limit
        /\ \A i \in 1..(Len(search.results) - 1) :
              search.results[i].score >= search.results[i + 1].score
        /\ \A i \in DOMAIN search.results :
              \E f \in search.files :
                  /\ search.results[i].path = f.path
                  /\ search.results[i].name = f.name
                  /\ \/ FuzzyMatches(f.name, search.query)
                     \/ FuzzyMatches(f.path, search.query)

C23_Witness ==
    /\ search.op = "fuzzy"
    /\ Len(search.results) = 2
    /\ search.results[1].score > search.results[2].score

\* the tables the last search ran on
SearchedDb == [files |-> search.files, fts |-> search.fts]

\* the limit search_files is said to pass on
ClaimedLimit == IF search.limit = 0 THEN 50 ELSE search.limit

\* C24: search_files returns the search_fts result when that is not empty,
\* the search_fuzzy result for the same query and limit (50 when none is
\* given) when search_fts returns no row, and the empty sequence without an
\* indexer
C24_Hybrid ==
    search.op = "files" =>
        IF ~search.init THEN search.results = <<>>
        ELSE IF search_fts(SearchedDb, search.query, ClaimedLimit, search.ok) = {{}}
        THEN /\ search.via = "fuzzy"
             /\ search.results \in
                    search_fuzzy(SearchedDb, search.query, ClaimedLimit, search.ok2)
        ELSE /\ search.via = "fts"
             /\ search.results \in
                    search_fts(SearchedDb, search.query, ClaimedLimit, search.ok)

C24_Witness ==
    /\ search.op = "files"
    /\ search.via = "fuzzy"
    /\ search.limit = 0
    /\ search.results # <<>>


-----------------------------------------------------------------------------
(* fs_engine alone *)

FsNext ==
    \/ ReadDirectory
    \/ CrawlDirectory
    \/ ListingDone

FsSpec == Init /\ [][FsNext]_vars

\* read_directory returned contents
Listed == listing.op = "read" /\ listing.result.ok

\* C25: in the entries read_directory returns, every adjacent pair (a, b)
\* has a a directory and b not, or both of one class and lower(a.name) <=
\* lower(b.name); no file precedes a directory
C25_SortOrder ==
    Listed =>
        LET e == listing.result.entries
        IN /\ \A i \in 1..(Len(e) - 1) :
                 \/ e[i].is_dir /\ ~e[i + 1].is_dir
                 \/ /\ e[i].is_dir = e[i + 1].is_dir
                    /\ ~StrLess(LowerAll(e[i + 1].name), LowerAll(e[i].name))
           /\ \A i, j \in DOMAIN e : (i < j) => ~(~e[i].is_dir /\ e[j].is_dir)

C25_Witness ==
    /\ Listed
    /\ listing.show_hidden
    /\ Len(listing.result.entries) = 8
    /\ listing.result.entries[2].is_dir
    /\ listing.result.entries[3].hidden
    /\ listing.result.entries[5].name = N_b_TXT
    /\ listing.result.entries[6].name = N_B_txt

\* the children of the directory that was read, as the paths handed to
\* get_file_entry
ListedChildren ==
    {listing.path \o <<c[Len(c)]>> :
        c \in ChildrenOf(metadata(listing.env, listing.path)[1].path)}

\* C26: without show_hidden no returned name begins with a dot, with
\* show_hidden every child whose metadata can be read is returned, and in
\* both cases total_items is the number of returned entries and total_size
\* the sum of their sizes
C26_HiddenAndTotals ==
    Listed =>
        LET e == listing.result.entries
        IN /\ ~listing.show_hidden => \A i \in DOMAIN e : e[i].name[1] # "."
           /\ listing.show_hidden =>
                 \A c \in ListedChildren :
                     c \notin listing.env.denied => \E i \in DOMAIN e : e[i].path = c
           /\ listing.result.total_items = Len(e)
           /\ listing.result.total_size = SumSizes(e)

C26_Witness ==
    /\ Listed
    /\ ~listing.show_hidden
    /\ listing.path = <<N_t>>
    /\ listing.result.total_items = 7
    /\ listing.result.total_size = 15

\* C27: read_directory fails in three cases, tested in this order: the
\* path does not exist, it is not a directory, the directory cannot be read;
\* a child whose metadata cannot be read is left out and the call succeeds
C27_ErrorOrder ==
    listing.op = "read" =>
        LET m == metadata(listing.env, listing.path)
        IN IF m = None
           THEN ~listing.result.ok /\ listing.result.err = ErrNotFound
           ELSE IF m[1].kind # "dir"
           THEN ~listing.result.ok /\ listing.result.err = ErrNotADirectory
           ELSE IF m[1].path \in listing.env.unlistable
           THEN ~listing.result.ok /\ listing.result.err = ErrIo
           ELSE /\ listing.result.ok
                /\ \A i \in DOMAIN listing.result.entries :
                      listing.result.entries[i].path \notin listing.env.denied

C27_Witness ==
    /\ Listed
    /\ listing.path = <<N_t>>
    /\ <<N_t, N_a_txt>> \in listing.env.denied

\* the entries the last call produced
Produced ==
    IF listing.op = "read"
    THEN {listing.result.entries[i] : i \in DOMAIN listing.result.entries}
    ELSE listing.entries

\* C28: every entry read_directory or crawl_directory produces, a symlink
\* or not, has size 0 and no extension when it is a directory, and is
\* hidden exactly when its name begins with a dot
C28_EntryInvariant ==
    \A e \in Produced :
        /\ e.is_dir => (e.size = 0 /\ e.extension = None)
        /\ e.hidden <=> (e.name[1] = ".")

C28_Witness ==
    /\ listing.op = "crawl"
    /\ \E e \in Produced : e.is_dir /\ e.is_symlink
    /\ \E e \in Produced : e.is_dir /\ ~e.is_symlink
    /\ \E e \in Produced : ~e.is_dir /\ e.is_symlink /\ e.name = N_lb
    /\ \E e \in Produced : ~e.is_dir /\ e.is_symlink /\ e.name = N_lf
    /\ \E e \in Produced : e.hidden /\ ~e.is_dir

\* the nodes a crawl of root to depth d is said to return: those at depth
\* <= d below root, the root at depth 0, whose metadata can be read and
\* which lie in directories that can be listed
ClaimedCrawl ==
    {n.path : n \in
        {m \in Tree :
            /\ IsNode(listing.path)
            /\ IsPrefix(listing.path, m.path)
            /\ listing.max_depth = -1 \/ Len(m.path) - Len(listing.path) <= listing.max_depth
            /\ m.path \notin listing.env.denied
            /\ \A k \in Len(listing.path)..(Len(m.path) - 1) :
                  /\ NodeAt(SubSeq(m.path, 1, k)).kind = "dir"
                  /\ SubSeq(m.path, 1, k) \notin listing.env.unlistable}}

\* C29 as stated: crawl_directory returns one entry for every readable node
\* at depth <= d below root, the root included at depth 0, every node when
\* no depth is given, dot names included
C29_CrawlDepth ==
    listing.op = "crawl" =>
        /\ {e.path : e \in listing.entries} = ClaimedCrawl
        /\ Cardinality(listing.entries) = Cardinality(ClaimedCrawl)

\* C29: crawl_directory returns one entry for every readable node at depth
\* <= d below root, the root included at depth 0 unless it is a path
\* without a file name such as "/", which has no entry; every such node when
\* no depth is given, dot names included
C29_CrawlDepthNamed ==
    listing.op = "crawl" =>
        /\ {e.path : e \in listing.entries} = ClaimedCrawl \ {<<>>}
        /\ Cardinality(listing.entries) = Cardinality(ClaimedCrawl \ {<<>>})

C29_Witness ==
    /\ listing.op = "crawl"
    /\ listing.path = <<N_t>>
    /\ listing.max_depth = 2
    /\ listing.env.denied = {<<N_t, N_a_txt>>}
    /\ listing.env.unlistable = {}
    /\ Cardinality(listing.entries) = 10


-----------------------------------------------------------------------------
(* Polling the status after index_directory *)

\* C30: a get_status made after index_directory has returned does not see
\* is_running = false before the worker of that call has finished, so the
\* first status seen with is_running = false is that of the completed ingest
C30_PollSeesCompletion ==
    \A w \in Workers : worker[w].pc # "idle" => status.is_running

-----------------------------------------------------------------------------
(* The status while several ingests overlap *)

\* C31: whenever some ingest worker has published its start and not yet its
\* finish, status.is_running is true and status.current_path is present,
\* overlapping index_directory calls included
C31_RunningWhileAnyWorker ==
    (\E w \in Workers : Running(w)) =>
        status.is_running /\ status.current_path # None

-----------------------------------------------------------------------------
(* clear_index and the status *)

\* C37: clear_index leaves is_running, indexed_count, current_path and
\* elapsed_ms as they were, so after a clear that deleted the rows
\* status.indexed_count equals get_indexed_count() only if it was 0 before
C37_ClearKeepsStatus ==
    [][ClearIndex =>
        /\ status' = status
        /\ (ev'[2] # 0 /\ status'.indexed_count = get_indexed_count(db', TRUE))
              => status.indexed_count = 0]_vars

C37_Witness ==
    /\ ev = <<"clear", 1>>
    /\ AllIdle
    /\ status.indexed_count > 0
    /\ status.elapsed_ms > 0
    /\ get_indexed_count(db, TRUE) = 0

-----------------------------------------------------------------------------
(* The extension of an entry *)

\* the part of a name after its last dot
AfterLastDot(name) ==
    LET last == CHOOSE i \in DOMAIN name :
                    name[i] = "." /\ \A j \in DOMAIN name : name[j] = "." => j <= i
    IN SubSeq(name, last + 1, Len(name))

HasDot(name) == \E i \in DOMAIN name : name[i] = "."

\* C39 as stated: a directory has no extension; any other entry has the
\* lowercased part of its name after the last dot, and none exactly when
\* the name has no dot
C39_Extension ==
    \A e \in Produced :
        /\ e.is_dir => e.extension = None
        /\ ~e.is_dir =>
              e.extension = IF HasDot(e.name) THEN Some(LowerAll(AfterLastDot(e.name)))
                            ELSE None

\* C39: a directory has no extension; any other entry has the lowercased
\* part of its name after the last dot, empty when the name ends with the
\* dot, and none exactly when the name has no dot after its first character
C39_ExtensionAfterStem ==
    \A e \in Produced :
        /\ e.is_dir => e.extension = None
        /\ ~e.is_dir =>
              e.extension = IF HasDot(Tail(e.name)) THEN Some(LowerAll(AfterLastDot(e.name)))
                            ELSE None

C39_Witness ==
    /\ listing.op = "crawl"
    /\ \E e \in Produced : e.name = N_hidden /\ e.extension = None
    /\ \E e \in Produced : e.name = N_e_dot /\ e.extension = Some(<<>>)
    /\ \E e \in Produced : e.name = N_a_b_C /\ e.extension = Some(<<"c">>)
    /\ \E e \in Produced : e.name = N_v_d /\ e.is_dir
    /\ \E e \in Produced : e.name = N_b_TXT /\ e.extension = Some(<<"t", "x", "t">>)
    /\ \E e \in Produced : e.name = N_x /\ e.extension = None

-----------------------------------------------------------------------------
(* The command line from the portal to the picker *)

LaunchNext ==
    \/ PickerLaunch
    \/ PickerEnd

LaunchSpec == Init /\ [][LaunchNext]_vars

\* C36: the picker's parse of the command line build_picker_args makes
\* recovers what build_picker_args was given: the mode of the mode flag,
\* allow_multiple = multiple, file_types = the extension list (absent when
\* the list is empty), start_dir = folder and current_name = name, also
\* when folder or name is spelled like a flag or an extension holds a comma
C36_ArgvRoundTrip ==
    (picker.pc = "running" /\ picker.built # None) =>
        LET b   == picker.built[1]
            cfg == picker.config
        IN /\ cfg.mode = ModeOfFlag(b.mode)
           /\ cfg.allow_multiple = b.multiple
           /\ cfg.file_types = IF b.extensions = <<>> THEN None ELSE Some(b.extensions)
           /\ cfg.start_dir = b.folder
           /\ cfg.current_name = b.name

-----------------------------------------------------------------------------
(* Where the URIs of SaveFiles point *)

\* u is dir followed by "/" and one segment that names an entry of dir
DirectChild(u, dir) ==
    /\ Len(u) > Len(dir) + 1
    /\ IsPrefix(dir \o <<"/">>, u)
    /\ LET seg == SubSeq(u, Len(dir) + 2, Len(u))
       IN /\ \A k \in DOMAIN seg : seg[k] # "/"
          /\ seg \notin {<<".">>, <<".", ".">>}

\* C38: every URI SaveFiles returns for a provided filename is the URI of
\* the chosen directory followed by "/" and exactly one percent-encoded
\* segment, so it denotes a direct child of that directory, whatever the
\* filename, one holding "/" or the name ".." included
C38_SaveFilesStayInDir ==
    (portal.pc = "replied" /\ portal.method = "SaveFiles"
       /\ portal.filenames # <<>> /\ portal.reply.code = 0) =>
        LET dir == encode_file_uri(launch_picker(portal.child)[1])
        IN \A i \in DOMAIN portal.reply.results.uris :
              DirectChild(portal.reply.results.uris[i], dir)

-----------------------------------------------------------------------------
(* An insert that fails during the ingest *)

\* a crawl of two batches over storage that fails up to MaxFaults times
RowFaultArgs == {<<P_d, -1>>}

RowFaultNext ==
    \/ \E w \in Workers : AllIdle /\ IndexDirectory(w, RowFaultArgs)
    \/ \E w \in Workers : WorkerStep(w)

RowFaultSpec ==
    /\ ReadyWith(MaxFaults)
    /\ [][RowFaultNext]_vars
    /\ \A w \in Workers : WF_vars(WorkerStep(w))

\* row k of worker w's crawl is in the files table
RowPresent(w, k) ==
    \E f \in db.files : f.path = worker[w].entries[k].path

\* no step removes a committed row
CommittedRowsStay ==
    [][\A f \in db.files : \E g \in db'.files : g.path = f.path]_vars

\* after a failed insert the thread still runs its final COMMIT and then
\* publishes its last status
StillFinishes ==
    /\ [][\A w \in Workers :
            (worker[w].failed # {} /\ worker[w].pc # "finish" /\ worker'[w].pc = "finish")
               => ev'[1] = "final_commit"]_vars
    /\ \A w \in Workers : (worker[w].failed # {}) ~> (ev = <<"finish", w>>)

\* C34 as stated: when the insert of a row fails, every row whose insert
\* succeeded is in files once the worker has finished its database work,
\* committed batches are not rolled back, and the worker still performs its
\* final commit and its final status publication
C34_RowFailureNonFatal ==
    /\ [](\A w \in Workers :
            (worker[w].pc = "finish" /\ worker[w].failed # {} /\ ~worker[w].commitFault)
               => \A k \in worker[w].done : RowPresent(w, k))
    /\ CommittedRowsStay
    /\ StillFinishes

\* C34: when the insert of a row fails, every row whose insert succeeded is
\* in files once the worker has finished its database work, except the rows
\* of the uncommitted batch that SQLite took back when the failure rolled
\* the open transaction back; committed batches are not rolled back, and the
\* worker still performs its final commit and its final status publication
C34_RowFailureKeepsCommitted ==
    /\ [](\A w \in Workers :
            (worker[w].pc = "finish" /\ worker[w].failed # {} /\ ~worker[w].commitFault)
               => \A k \in worker[w].done \ worker[w].undone : RowPresent(w, k))
    /\ CommittedRowsStay
    /\ StillFinishes

C34_Witness ==
    \E w \in Workers :
        /\ worker[w].pc = "finish"
        /\ worker[w].failed # {}
        /\ ~worker[w].commitFault
        /\ worker[w].undone # {}
        /\ \E k \in worker[w].done \ worker[w].undone : k <= BATCH_SIZE
        /\ \A k \in worker[w].done \ worker[w].undone : RowPresent(w, k)
        /\ \E k \in worker[w].undone : ~RowPresent(w, k)

-----------------------------------------------------------------------------
(* The mutexes: who holds the status, and whether every call returns *)

LockNext ==
    \/ \E h \in Handlers : HCall(h)
    \/ \E h \in Handlers : HStep(h)
    \/ \E w \in Workers : TStep(w)

\* threads are scheduled: a thread that can take a step eventually takes one
LockSpec ==
    /\ ReadyWith(0)
    /\ [][LockNext]_vars
    /\ \A h \in Handlers : WF_vars(HStep(h))
    /\ \A w \in Workers : WF_vars(TStep(w))

\* C32: an ingest thread holds the status mutex only while it publishes at
\* start, at a batch boundary and at finish, never while it crawls or
\* inserts a row, so a get_status that waits for the mutex waits for a
\* publication only
C32_StatusHeldOnlyToPublish ==
    \A w \in Workers :
        /\ locks.status = Ingest(w) =>
              locks.t[w].pc \in {"publish_start", "publish_batch", "publish_finish"}
        /\ locks.t[w].pc \in {"crawl", "open", "insert", "commit", "final_commit"} =>
              locks.status # Ingest(w)

C32_Witness ==
    \E w \in Workers, h \in Handlers :
        /\ locks.t[w].pc = "insert"
        /\ locks.t[w].i > BATCH_SIZE
        /\ locks.h[h].pc = "read_status"
        /\ locks.status = Handler(h)

\* a thread takes a mutex it did not hold
Takes(x, old, new) ==
    \/ old.indexer # x /\ new.indexer = x
    \/ old.status # x /\ new.status = x

Threads == {Handler(h) : h \in Handlers} \cup {Ingest(w) : w \in Workers}

\* C33: no interleaving of the ingest threads with the handlers
\* start_indexing, get_indexer_status, search_files, get_indexed_count and
\* clear_index deadlocks: no thread takes a lock while it holds the status
\* mutex, every handler call returns and every ingest thread ends
C33_NoDeadlock ==
    /\ [][\A x \in Threads : locks.status = x => ~Takes(x, locks, locks')]_vars
    /\ \A h \in Handlers : (locks.h[h].pc # "idle") ~> (locks.h[h].pc = "idle")
    /\ \A w \in Workers :
          (locks.t[w].pc # "unborn") ~> (locks.t[w].pc = "ended")

C33_Witness ==
    \E w \in Workers, h, g \in Handlers :
        /\ locks.status = Ingest(w)
        /\ locks.h[h].pc = "lock_status"
        /\ locks.indexer = Handler(h)
        /\ locks.h[g].pc = "lock_indexer"

-----------------------------------------------------------------------------
(* Portal calls that overlap *)

BusNext ==
    \/ \E c \in Calls : BusCall(c)
    \/ \E c \in Calls : BusPickerExit(c)
    \/ \E c \in Calls : BusReply(c)
    \/ \E c \in Calls : BusDone(c)

\* a handler that has been resumed runs on; when a picker ends, and when
\* the next call arrives, is up to the user and the calling application
BusSpec ==
    /\ Init
    /\ [][BusNext]_vars
    /\ \A c \in Calls : WF_vars(BusReply(c)) /\ WF_vars(BusDone(c))

\* the reply launch_picker's result gives for a method
ReplyFor(method, out, filenames) ==
    LET selected == launch_picker(out)
        uris     == IF method = "SaveFiles" /\ selected # <<>>
                    THEN [i \in DOMAIN filenames |->
                            encode_file_uri(selected[1] \o <<"/">> \o filenames[i])]
                    ELSE EncodeAll(selected)
    IN IF uris = <<>> THEN [code |-> 1, results |-> EmptyMap]
       ELSE [code |-> 0, results |-> [uris |-> uris]]

\* C35: overlapping portal calls are independent: while one handler awaits
\* its picker another call can spawn its own picker, be resumed and reply,
\* and every reply is the one made of the stdout and exit status of the
\* picker of the same call, whichever picker exits first
C35_CallsIndependent ==
    /\ [](\A c \in Calls :
            bus[c].pc = "replied" =>
               bus[c].reply = ReplyFor(bus[c].method, bus[c].child, bus[c].filenames))
    /\ [][\A c \in Calls : \A d \in Calls \ {c} :
            bus'[c] # bus[c] => bus'[d] = bus[d]]_vars
    /\ \A c \in Calls : (bus[c].pc = "resumed") ~> (bus[c].pc = "replied")
    /\ \A c \in Calls : (bus[c].pc = "replied") ~> (bus[c].pc = "idle")

C35_Witness ==
    /\ bus[1].pc = "awaiting"
    /\ bus[1].method = "OpenFile"
    /\ bus[2].pc = "replied"
    /\ bus[2].method = "SaveFiles"
    /\ bus[2].child = select_files(<<Pa_b>>)
    /\ bus[2].reply.code = 0

=============================================================================
